---- MODULE Spec2Model ----
(***************************************************************************)
(* A model of mq_viewer (harehare/mqv): the Markdown-to-terminal renderer  *)
(* of src/src/renderer.rs and the highlighter of src/src/highlighter.rs.   *)
(*                                                                         *)
(* Text is a sequence of codepoints, each codepoint a one-element string   *)
(* ("a", "[", " ").  Codepoints outside ASCII are written by their code    *)
(* point, "U+250C" for the box corner; ESC is "U+001B".  One SGR colour    *)
(* directive ("\x1b[1m") is a single element "ESC[1m": the renderer never  *)
(* measures styled text, it only emits it.                                 *)
(***************************************************************************)
EXTENDS Integers, Sequences, FiniteSets, TLC

VARIABLES
    nodes,   \* markdown.nodes, the document handed to render_markdown
    i,       \* render_markdown's loop index (1-based here, 0-based in Rust)
    w,       \* the writer: what it received, how many writes it was asked for
    pc,      \* "walk" in the loop; "Ok"/"Err" returned; "call"/"ret" for a pure call
    log,     \* which component each top-level node was handed to, in order,
             \* a table run with the width vector the table engine computed
    arg,     \* the argument of a pure function under check
    ret      \* its return value

vars == <<nodes, i, w, pc, log, arg, ret>>

(***************************************************************************)
(* Bounds of the model.                                                    *)
(***************************************************************************)
MaxDoc == 3        \* top-level nodes of a document in the walk
MaxRun == 4        \* nodes of a table run
MaxKids == 3       \* children of a blockquote
MaxInline == 3     \* nodes of an inline sequence handed to the flattener
MaxFailAt == 24    \* the sink fails at its k-th write, k up to this
MaxCode == 3       \* codepoints of a code string handed to the highlighter
MaxDepth == 4      \* the depth argument of a call of the dispatcher
MaxNest == 2       \* lists nested inside the list handed to the dispatcher

(***************************************************************************)
(* Codepoints.                                                             *)
(***************************************************************************)
ESC == "U+001B"
NL == "\n"
SP == " "
BOX_H == "U+2500"      \* horizontal rule
BOX_V == "U+2502"      \* vertical bar
BOX_TL == "U+250C"
BOX_TR == "U+2510"
BOX_BL == "U+2514"
BOX_BR == "U+2518"
BOX_LT == "U+251C"
BOX_RT == "U+2524"
BOX_TT == "U+252C"
BOX_BT == "U+2534"
BOX_X == "U+253C"
BOX_DH == "U+2550"     \* double horizontal rule
QUOTE_BAR == "U+258C"
LINK_GLYPH == "U+1F517"
BACKTICK == "U+0060"
IMAGE_GLYPH == <<"U+1F5BC", "U+FE0F", " ">>

HEADER_SYMBOLS == <<"U+2460", "U+2461", "U+2462", "U+2463", "U+2464", "U+2465">>
LIST_BULLETS == <<"U+25CF", "U+25CB", "U+25C6", "U+25C7">>

CALLOUTS == <<
    [tag |-> <<"N","O","T","E">>, icon |-> <<"U+2139", "U+FE0F">>,
     color |-> "34", name |-> <<"N","o","t","e">>],
    [tag |-> <<"T","I","P">>, icon |-> <<"U+1F4A1">>,
     color |-> "32", name |-> <<"T","i","p">>],
    [tag |-> <<"I","M","P","O","R","T","A","N","T">>, icon |-> <<"U+2757">>,
     color |-> "35", name |-> <<"I","m","p","o","r","t","a","n","t">>],
    [tag |-> <<"W","A","R","N","I","N","G">>, icon |-> <<"U+26A0", "U+FE0F">>,
     color |-> "33", name |-> <<"W","a","r","n","i","n","g">>],
    [tag |-> <<"C","A","U","T","I","O","N">>, icon |-> <<"U+1F525">>,
     color |-> "31", name |-> <<"C","a","u","t","i","o","n">>] >>

(***************************************************************************)
(* str primitives of the Rust standard library, on codepoint sequences.    *)
(***************************************************************************)
UpperLetters == <<"A","B","C","D","E","F","G","H","I","J","K","L","M",
                  "N","O","P","Q","R","S","T","U","V","W","X","Y","Z">>
LowerLetters == <<"a","b","c","d","e","f","g","h","i","j","k","l","m",
                  "n","o","p","q","r","s","t","u","v","w","x","y","z">>

to_ascii_lowercase(c) ==
    IF \E k \in 1..26 : UpperLetters[k] = c
    THEN LowerLetters[CHOOSE k \in 1..26 : UpperLetters[k] = c]
    ELSE c

to_lowercase(s) == [k \in 1..Len(s) |-> to_ascii_lowercase(s[k])]

eq_ignore_ascii_case(a, b) ==
    /\ Len(a) = Len(b)
    /\ \A k \in 1..Len(a) : to_ascii_lowercase(a[k]) = to_ascii_lowercase(b[k])

is_whitespace(c) == c \in {" ", "\t", "\n"}

RECURSIVE trim_start(_)
trim_start(s) ==
    IF s # <<>> /\ is_whitespace(Head(s)) THEN trim_start(Tail(s)) ELSE s

RECURSIVE trim_end(_)
trim_end(s) ==
    IF s # <<>> /\ is_whitespace(s[Len(s)])
    THEN trim_end(SubSeq(s, 1, Len(s) - 1))
    ELSE s

trim(s) == trim_end(trim_start(s))

starts_with(s, p) == Len(s) >= Len(p) /\ SubSeq(s, 1, Len(p)) = p

ends_with(s, c) == s # <<>> /\ s[Len(s)] = c

contains(s, c) == \E k \in 1..Len(s) : s[k] = c

\* str::find: the 1-based place of the first c, 0 for None
find(s, c) ==
    IF contains(s, c)
    THEN CHOOSE k \in 1..Len(s) : s[k] = c /\ \A j \in 1..(k - 1) : s[j] # c
    ELSE 0

repeat(c, n) == [k \in 1..n |-> c]

(***************************************************************************)
(* colored: s.style() is the SGR directive, the text, the reset.           *)
(***************************************************************************)
RESET == "ESC[0m"
Sgr(code) == "ESC[" \o code \o "m"
Styled(code, s) == <<Sgr(code)>> \o s \o <<RESET>>

(***************************************************************************)
(* mq_markdown::Node, the variants the renderer matches on.                *)
(***************************************************************************)
Text(value) == [kind |-> "Text", value |-> value]
Strong(values) == [kind |-> "Strong", values |-> values]
Emphasis(values) == [kind |-> "Emphasis", values |-> values]
CodeInline(value) == [kind |-> "CodeInline", value |-> value]
Link(values, url) == [kind |-> "Link", values |-> values, url |-> url]
Image(alt, url) == [kind |-> "Image", alt |-> alt, url |-> url]
Break == [kind |-> "Break"]
HorizontalRule == [kind |-> "HorizontalRule"]
Html(value) == [kind |-> "Html", value |-> value]
\* lang is a sequence of at most one language tag: <<>> is None
Code(value, lang) == [kind |-> "Code", value |-> value, lang |-> lang]
Heading(depth, values) == [kind |-> "Heading", depth |-> depth, values |-> values]
Fragment(values) == [kind |-> "Fragment", values |-> values]
Blockquote(values) == [kind |-> "Blockquote", values |-> values]
\* checked is "true", "false" or "none"
List(ordered, index, checked, values) ==
    [kind |-> "List", ordered |-> ordered, index |-> index,
     checked |-> checked, values |-> values]
TableCell(values, column, row, last_cell_in_row) ==
    [kind |-> "TableCell", values |-> values, column |-> column, row |-> row,
     last_cell_in_row |-> last_cell_in_row]
TableHeader(align) == [kind |-> "TableHeader", align |-> align]
TableRow(values) == [kind |-> "TableRow", values |-> values]

IsTableNode(n) == n.kind \in {"TableCell", "TableHeader", "TableRow"}

(***************************************************************************)
(* make_clickable_link: OSC 8 with the ST terminator.                      *)
(***************************************************************************)
\* a hyperlink closed by the bell instead of the string terminator
make_clickable_link_Bell(url, display_text) ==
    <<ESC, "]", "8", ";", ";">> \o url \o <<"U+0007">> \o display_text
        \o <<ESC, "]", "8", ";", ";", "U+0007">>

make_clickable_link(url, display_text) ==
    <<ESC, "]", "8", ";", ";">> \o url \o <<ESC, "\\">> \o display_text
        \o <<ESC, "]", "8", ";", ";", ESC, "\\">>

(***************************************************************************)
(* detect_callout: the 1-based index into CALLOUTS, 0 for None, -1 for a   *)
(* panic of the slice expression.                                          *)
(***************************************************************************)
\* a lookup that compares the tag with == instead of eq_ignore_ascii_case
CalloutFind_CaseSensitive(callout_type) ==
    IF \E k \in 1..Len(CALLOUTS) : CALLOUTS[k].tag = callout_type
    THEN CHOOSE k \in 1..Len(CALLOUTS) : CALLOUTS[k].tag = callout_type
    ELSE 0

\* a lookup that takes every bracketed word for the first tag
CalloutFind_AnyTag(callout_type) == 1

CalloutFind(callout_type) ==
    IF \E k \in 1..Len(CALLOUTS) : eq_ignore_ascii_case(CALLOUTS[k].tag, callout_type)
    THEN CHOOSE k \in 1..Len(CALLOUTS) :
            /\ eq_ignore_ascii_case(CALLOUTS[k].tag, callout_type)
            /\ \A j \in 1..(k - 1) : ~eq_ignore_ascii_case(CALLOUTS[j].tag, callout_type)
    ELSE 0

detect_callout(text) ==
    LET trimmed == trim(text)
    IN  IF starts_with(trimmed, <<"[", "!">>) /\ contains(trimmed, "]")
        THEN LET end == find(trimmed, "]")
             IN  IF end # 0
                 THEN \* &trimmed[2..end] panics when end (0-based) is below 2
                      IF end - 1 < 2 THEN -1
                      ELSE CalloutFind(SubSeq(trimmed, 3, end - 1))
                 ELSE 0
        ELSE 0

(***************************************************************************)
(* render_inline_content (the Inline Flattener) and needs_space_before.    *)
(***************************************************************************)
needs_space_before(node) ==
    node.kind \in {"Link", "Strong", "Emphasis", "CodeInline"}

RECURSIVE render_inline_content(_)
RECURSIVE InlineFrom(_, _, _)

\* a flattener that keeps the Markdown marker around a Strong
InlinePush_StrongStarred(node) ==
    CASE node.kind = "Text" -> node.value
      [] node.kind = "CodeInline" -> <<BACKTICK>> \o node.value \o <<BACKTICK>>
      [] node.kind = "Strong" -> <<"*", "*">> \o render_inline_content(node.values) \o <<"*", "*">>
      [] node.kind = "Emphasis" -> render_inline_content(node.values)
      [] node.kind = "Link" ->
            LET text == render_inline_content(node.values)
            IN  IF trim(text) = <<>>
                THEN <<LINK_GLYPH, " ">> \o make_clickable_link(node.url, node.url)
                ELSE <<LINK_GLYPH, " ">> \o make_clickable_link(node.url, text)
      [] OTHER -> <<>>

\* what one node appends to result
InlinePush(node) ==
    CASE node.kind = "Text" -> node.value
      [] node.kind = "CodeInline" -> <<BACKTICK>> \o node.value \o <<BACKTICK>>
      [] node.kind = "Strong" -> render_inline_content(node.values)
      [] node.kind = "Emphasis" -> render_inline_content(node.values)
      [] node.kind = "Link" ->
            LET text == render_inline_content(node.values)
            IN  IF trim(text) = <<>>
                THEN <<LINK_GLYPH, " ">> \o make_clickable_link(node.url, node.url)
                ELSE <<LINK_GLYPH, " ">> \o make_clickable_link(node.url, text)
      [] OTHER -> <<>>

\* a flattener without the `i > 0` of its condition
InlineSpace_AlsoFirst(ns, k, result) ==
    IF needs_space_before(ns[k]) /\ ~ends_with(result, " ") THEN <<" ">> ELSE <<>>

\* the space pushed before the k-th node (1-based; i = k - 1 in the source)
InlineSpace(ns, k, result) ==
    IF k > 1 /\ needs_space_before(ns[k]) /\ ~ends_with(result, " ")
    THEN <<" ">>
    ELSE <<>>

\* the loop from the k-th node on, result being what is accumulated so far
InlineFrom(ns, k, result) ==
    IF k > Len(ns) THEN result
    ELSE InlineFrom(ns, k + 1, result \o InlineSpace(ns, k, result) \o InlinePush(ns[k]))

render_inline_content(ns) == InlineFrom(ns, 1, <<>>)

chars_count(s) == Len(s)

(***************************************************************************)
(* SyntaxHighlighter.  The tree-sitter engine is outside the repository:   *)
(* its answer to one call is the record engine, [ok, events]; ok = FALSE   *)
(* is Highlighter::highlight returning Err.                                *)
(***************************************************************************)
Source(start, end) == [ev |-> "Source", start |-> start, end |-> end]
HighlightStart(idx) == [ev |-> "HighlightStart", idx |-> idx]
HighlightEnd == [ev |-> "HighlightEnd"]
EventErr == [ev |-> "Err"]

LanguageTags == {
    <<"r","u","s","t">>, <<"r","s">>,
    <<"j","a","v","a","s","c","r","i","p","t">>, <<"j","s">>,
    <<"t","y","p","e","s","c","r","i","p","t">>, <<"t","s">>, <<"t","s","x">>,
    <<"p","y","t","h","o","n">>, <<"p","y">>, <<"g","o">>,
    <<"h","t","m","l">>, <<"c","s","s">>, <<"j","s","o","n">>,
    <<"b","a","s","h">>, <<"s","h">>, <<"c">>,
    <<"c","p","p">>, <<"c","+","+">>, <<"c","x","x">>,
    <<"j","a","v","a">>, <<"h","s">>, <<"h","a","s","k","e","l","l">>,
    <<"e","l","m">>, <<"m","q">> }

\* a lookup that matches the tag as written, without to_lowercase
get_highlight_config_AsWritten(lang) == lang \in LanguageTags

\* TRUE for Some(config), FALSE for None
get_highlight_config(lang) == to_lowercase(lang) \in LanguageTags

HighlightColors == <<"36", "35", "33", "34", "95", "37", "36", "90", "90", "90",
                     "32", "92", "34", "33", "93", "37", "35", "36", "90", "35",
                     "35", "36", "33", "36", "33", "37">>

get_color_for_highlight(idx) ==
    IF idx + 1 \in 1..Len(HighlightColors) THEN Sgr(HighlightColors[idx + 1]) ELSE RESET

\* &code[a..b], byte offsets a and b
Slice(code, a, b) == SubSeq(code, a + 1, b)

RECURSIVE HighlightEvents(_, _, _, _, _)
\* the event loop: result and current_pos after the events from the k-th on
HighlightEvents(code, events, k, result, current_pos) ==
    IF k > Len(events)
    THEN [result |-> result, current_pos |-> current_pos]
    ELSE LET e == events[k]
         IN  CASE e.ev = "Source" ->
                    HighlightEvents(code, events, k + 1,
                        result
                          \o (IF e.start > current_pos
                              THEN Slice(code, current_pos, e.start) ELSE <<>>)
                          \o Slice(code, e.start, e.end),
                        e.end)
               [] e.ev = "HighlightStart" ->
                    HighlightEvents(code, events, k + 1,
                        Append(result, get_color_for_highlight(e.idx)), current_pos)
               [] e.ev = "HighlightEnd" ->
                    HighlightEvents(code, events, k + 1,
                        Append(result, RESET), current_pos)
               [] OTHER ->
                    HighlightEvents(code, events, k + 1, result, current_pos)

\* a highlight that returns result without the text behind the last span
highlight_NoRemainder(code, lang, engine) ==
    IF lang = <<>> THEN code
    ELSE IF ~get_highlight_config(lang[1]) THEN code
    ELSE IF ~engine.ok THEN code
    ELSE HighlightEvents(code, engine.events, 1, <<>>, 0).result

highlight(code, lang, engine) ==
    IF lang = <<>> THEN code
    ELSE IF ~get_highlight_config(lang[1]) THEN code
    ELSE IF ~engine.ok THEN code
    ELSE LET r == HighlightEvents(code, engine.events, 1, <<>>, 0)
         IN  IF r.current_pos < Len(code)
             THEN r.result \o Slice(code, r.current_pos, Len(code))
             ELSE r.result

\* the engine's answer inside a render: the source as one highlighted span
EngineWholeSpan(code) ==
    [ok |-> TRUE,
     events |-> IF code = <<>> THEN <<>>
                ELSE <<HighlightStart(4), Source(0, Len(code)), HighlightEnd>>]

(***************************************************************************)
(* The sink.  n counts the write!/writeln! calls made on it; the call      *)
(* numbered failAt fails (0: none does).  err is the io::Result in hand:   *)
(* after `?` saw an Err nothing of the function runs any more.  Beside the  *)
(* sink stands the terminal of the run: viuer is how the image crates      *)
(* answer a display attempt in this run ("shown", "open_err" for           *)
(* image::open failing, "print_err" for viuer::print failing), display the *)
(* attempts made, in order.  checks is the build's overflow-checks setting *)
(* (on in a debug build, off in a release build); panic is set when an     *)
(* arithmetic overflow panicked: the panic unwinds through every caller as *)
(* an Err does through `?`, so it sets err as well.  hl is the             *)
(* SyntaxHighlighter instance of the run, created by render_markdown and   *)
(* lent to every renderer: the calls made through it so far, each with its *)
(* arguments and its result.                                               *)
(***************************************************************************)
NewWriter(failAt) ==
    [out |-> <<>>, n |-> 0, failAt |-> failAt, err |-> FALSE,
     viuer |-> "shown", display |-> <<>>, checks |-> FALSE, panic |-> FALSE,
     hl |-> <<>>]

\* write!(writer, "{}", s)?
W(w0, s) ==
    IF w0.err THEN w0
    ELSE IF w0.n + 1 = w0.failAt THEN [w0 EXCEPT !.n = @ + 1, !.err = TRUE]
    ELSE [w0 EXCEPT !.n = @ + 1, !.out = @ \o s]

\* writeln!(writer, "{}", s)?
Wln(w0, s) == W(w0, s \o <<NL>>)

\* Vec::get(c).copied().unwrap_or(d), c a 0-based column
GetOr(column_widths, c, d) ==
    IF c + 1 <= Len(column_widths) THEN column_widths[c + 1] ELSE d

Max(a, b) == IF a >= b THEN a ELSE b

RECURSIVE render_node_inline(_, _, _, _)
RECURSIVE render_list(_, _, _)
RECURSIVE RenderEach(_, _, _, _, _)
RECURSIVE ListItems(_, _, _, _, _)
RECURSIVE CalloutBody(_, _, _, _)
RECURSIVE RegularQuoteFrom(_, _, _, _)
RECURSIVE TableRowCells(_, _, _, _)
RECURSIVE TableNodesFrom(_, _, _, _)

\* for child in values { render_node_inline(child, depth, inline, ..)?; }
RenderEach(values, k, depth, inline, w0) ==
    IF k > Len(values) \/ w0.err THEN w0
    ELSE RenderEach(values, k + 1, depth, inline,
                    render_node_inline(values[k], depth, inline, w0))

(***************************************************************************)
(* The Table Layout Engine.                                                *)
(***************************************************************************)
\* column_widths.resize(..) when short, then the running max at column c
WidthPut(column_widths, c, width) ==
    LET resized == IF c >= Len(column_widths)
                   THEN column_widths \o repeat(0, c + 1 - Len(column_widths))
                   ELSE column_widths
    IN  [resized EXCEPT ![c + 1] = Max(@, width)]

\* a width computation that leaves row-wrapped cells out
WidthsOfRow_SkipsRows(values, k, column_widths) == column_widths

RECURSIVE WidthsOfRow(_, _, _)
\* a TableRow's cells, col_idx being the place in row.values
WidthsOfRow(values, k, column_widths) ==
    IF k > Len(values) THEN column_widths
    ELSE WidthsOfRow(values, k + 1,
            IF values[k].kind = "TableCell"
            THEN WidthPut(column_widths, k - 1,
                          chars_count(render_inline_content(values[k].values)))
            ELSE column_widths)

RECURSIVE WidthsFrom(_, _, _)
WidthsFrom(ns, k, column_widths) ==
    IF k > Len(ns) THEN column_widths
    ELSE WidthsFrom(ns, k + 1,
            CASE ns[k].kind = "TableRow" -> WidthsOfRow(ns[k].values, 1, column_widths)
              [] ns[k].kind = "TableCell" ->
                    WidthPut(column_widths, ns[k].column,
                             chars_count(render_inline_content(ns[k].values)))
              [] OTHER -> column_widths)

calculate_column_widths(ns) == WidthsFrom(ns, 1, <<>>)

RECURSIVE BorderFrom(_, _, _, _, _)
\* the per-column loop of a border, c the 0-based column, joint the separator
BorderFrom(column_widths, col_count, c, joint, w0) ==
    IF c >= col_count THEN w0
    ELSE LET w1 == W(w0, Styled("90", repeat(BOX_H, GetOr(column_widths, c, 4) + 2)))
             w2 == IF c < col_count - 1 THEN W(w1, Styled("90", <<joint>>)) ELSE w1
         IN  BorderFrom(column_widths, col_count, c + 1, joint, w2)

render_table_top_border(column_widths, col_count, w0) ==
    Wln(BorderFrom(column_widths, col_count, 0, BOX_TT, W(w0, Styled("90", <<BOX_TL>>))),
        Styled("90", <<BOX_TR>>))

render_table_bottom_border(column_widths, col_count, w0) ==
    Wln(BorderFrom(column_widths, col_count, 0, BOX_BT, W(w0, Styled("90", <<BOX_BL>>))),
        Styled("90", <<BOX_BR>>))

\* (left, right) of one alignment
AlignGlyphs(align) ==
    CASE align = "Left" -> <<":", BOX_H>>
      [] align = "Right" -> <<BOX_H, ":">>
      [] align = "Center" -> <<":", ":">>
      [] OTHER -> <<BOX_H, BOX_H>>

RECURSIVE HeaderFrom(_, _, _, _)
HeaderFrom(align, column_widths, k, w0) ==
    IF k > Len(align) THEN w0
    ELSE LET g == AlignGlyphs(align[k])
             w1 == W(w0, Styled("90", <<g[1]>>))
             w2 == W(w1, Styled("90", repeat(BOX_H, GetOr(column_widths, k - 1, 4))))
             w3 == W(w2, Styled("90", <<g[2]>>))
             w4 == IF k - 1 < Len(align) - 1 THEN W(w3, Styled("90", <<BOX_X>>)) ELSE w3
         IN  HeaderFrom(align, column_widths, k + 1, w4)

render_table_header(header, column_widths, w0) ==
    Wln(HeaderFrom(header.align, column_widths, 1, W(w0, Styled("90", <<BOX_LT>>))),
        Styled("90", <<BOX_RT>>))

\* if content_width < width { write!(" ".repeat(width - content_width))?; }
Pad(content_width, width, w1) ==
    IF content_width < width THEN W(w1, repeat(" ", width - content_width)) ELSE w1

\* a cell's children rendered inline, then the padding up to width
CellContent(cell, width, w0) ==
    Pad(chars_count(render_inline_content(cell.values)), width,
        RenderEach(cell.values, 1, 0, TRUE, w0))

TableRowCells(values, k, column_widths, w0) ==
    IF k > Len(values) \/ w0.err THEN w0
    ELSE TableRowCells(values, k + 1, column_widths,
            IF values[k].kind = "TableCell"
            THEN W(CellContent(values[k], GetOr(column_widths, k - 1, 0), w0),
                   <<" ">> \o Styled("96", <<BOX_V, " ">>))
            ELSE w0)

\* a row renderer that writes nothing of a TableRow
render_table_row_Skipped(row, column_widths, w0) == w0

render_table_row(row, column_widths, w0) ==
    Wln(TableRowCells(row.values, 1, column_widths, W(w0, Styled("96", <<BOX_V, " ">>))),
        <<>>)

\* a cell that closes its line whether or not it is the last of its row
CellLastBar_Always(cell, w3) == Wln(w3, Styled("96", <<BOX_V>>))

\* if cell.last_cell_in_row { writeln!("│")?; }
CellLastBar(cell, w3) ==
    IF cell.last_cell_in_row THEN Wln(w3, Styled("96", <<BOX_V>>)) ELSE w3

render_table_cell(cell, column_widths, w0) ==
    CellLastBar(cell,
        W(CellContent(cell, GetOr(column_widths, cell.column, 0),
                      W(w0, Styled("96", <<BOX_V, " ">>))),
          <<" ">>))

\* the row opener written when the node at place k (1-based) is a TableCell
RowOpener(table_nodes, k, w1) ==
    IF k <= Len(table_nodes) /\ table_nodes[k].kind = "TableCell"
    THEN W(w1, Styled("96", <<BOX_V, " ">>))
    ELSE w1

\* what follows a flat cell that closes its row: the newline, then the header
\* separator and a row opener, or a row opener
AfterLastCell(table_nodes, k, column_widths, w2) ==
    IF ~table_nodes[k].last_cell_in_row THEN w2
    ELSE IF k + 1 <= Len(table_nodes) /\ table_nodes[k + 1].kind = "TableHeader"
         THEN RowOpener(table_nodes, k + 2,
                  render_table_header(table_nodes[k + 1], column_widths, Wln(w2, <<>>)))
         ELSE RowOpener(table_nodes, k + 1, Wln(w2, <<>>))

\* the TableCell arm of render_table's loop
TableFlatCell(table_nodes, k, column_widths, w0) ==
    AfterLastCell(table_nodes, k, column_widths,
        W(CellContent(table_nodes[k],
                      GetOr(column_widths, table_nodes[k].column, 0), w0),
          <<" ">> \o Styled("96", <<BOX_V, " ">>)))

TableNodesFrom(table_nodes, k, column_widths, w0) ==
    IF k > Len(table_nodes) \/ w0.err THEN w0
    ELSE TableNodesFrom(table_nodes, k + 1, column_widths,
            CASE table_nodes[k].kind = "TableCell" ->
                    TableFlatCell(table_nodes, k, column_widths, w0)
              [] table_nodes[k].kind = "TableRow" ->
                    render_table_row(table_nodes[k], column_widths, w0)
              [] OTHER -> w0)

\* the alignment count of the first TableHeader, else the width vector's length
\* a column count that is the width vector's length, header or not
ColCount_WidthsOnly(table_nodes, column_widths) == Len(column_widths)

ColCount(table_nodes, column_widths) ==
    IF \E k \in 1..Len(table_nodes) : table_nodes[k].kind = "TableHeader"
    THEN Len(table_nodes[CHOOSE k \in 1..Len(table_nodes) :
                /\ table_nodes[k].kind = "TableHeader"
                /\ \A j \in 1..(k - 1) : table_nodes[j].kind # "TableHeader"].align)
    ELSE Len(column_widths)

render_table(table_nodes, w0) ==
    IF table_nodes = <<>> THEN w0
    ELSE LET column_widths == calculate_column_widths(table_nodes)
             col_count == ColCount(table_nodes, column_widths)
             w1 == Wln(w0, <<>>)
             w2 == render_table_top_border(column_widths, col_count, w1)
             w3 == W(w2, Styled("96", <<BOX_V, " ">>))
             w4 == TableNodesFrom(table_nodes, 1, column_widths, w3)
             w5 == render_table_bottom_border(column_widths, col_count, w4)
         IN  Wln(w5, <<>>)

(***************************************************************************)
(* Callouts and blockquotes.                                               *)
(***************************************************************************)
\* text.value[end + 1..].trim_start() behind the first "]", "" without one
AfterBracket(value) ==
    LET end == find(value, "]")
    IN  IF end # 0 THEN trim_start(SubSeq(value, end + 1, Len(value))) ELSE <<>>

\* the dispatcher's scan of a blockquote's children (is_callout)
QuoteIsCallout(values) ==
    \E k \in 1..Len(values) :
        \/ /\ values[k].kind = "Fragment"
           /\ \E j \in 1..Len(values[k].values) :
                /\ values[k].values[j].kind = "Text"
                /\ detect_callout(values[k].values[j].value) # 0
        \/ /\ values[k].kind = "Text"
           /\ detect_callout(values[k].value) # 0

NoCallout == [info |-> 0, text |-> <<>>]

RECURSIVE FindInFragment(_, _)
\* the first Text child of a Fragment that carries a marker
FindInFragment(children, k) ==
    IF k > Len(children) THEN NoCallout
    ELSE IF children[k].kind = "Text" /\ detect_callout(children[k].value) # 0
         THEN [info |-> detect_callout(children[k].value),
               text |-> AfterBracket(children[k].value)]
         ELSE FindInFragment(children, k + 1)

RECURSIVE FindCallout(_, _)
\* the callout renderer's own scan: callout_info and callout_text
FindCallout(values, k) ==
    IF k > Len(values) THEN NoCallout
    ELSE LET found ==
                CASE values[k].kind = "Fragment" -> FindInFragment(values[k].values, 1)
                  [] values[k].kind = "Text" ->
                        IF detect_callout(values[k].value) # 0
                        THEN [info |-> detect_callout(values[k].value),
                              text |-> AfterBracket(values[k].value)]
                        ELSE NoCallout
                  [] OTHER -> NoCallout
         IN  IF found.info # 0 THEN found ELSE FindCallout(values, k + 1)

RECURSIVE CalloutLine(_, _, _, _)
\* line_content of one Fragment child, and found_callout_marker after it
CalloutLine(children, k, found, line) ==
    IF k > Len(children) THEN [line |-> line, found |-> found]
    ELSE LET child == children[k]
         IN  CASE child.kind = "Text" ->
                    IF ~found /\ detect_callout(child.value) # 0
                    THEN CalloutLine(children, k + 1, TRUE,
                                     line \o AfterBracket(child.value))
                    ELSE CalloutLine(children, k + 1, found, line \o child.value)
               [] child.kind = "Link" ->
                    LET text == render_inline_content(child.values)
                    IN  CalloutLine(children, k + 1, found,
                            line \o <<" ", LINK_GLYPH, " ">>
                                 \o (IF trim(text) = <<>>
                                     THEN make_clickable_link(child.url, child.url)
                                     ELSE make_clickable_link(child.url, text)))
               [] OTHER ->
                    CalloutLine(children, k + 1, found,
                                line \o render_inline_content(<<child>>))

\* the second loop of render_callout_blockquote
CalloutBody(values, k, found, w0) ==
    IF k > Len(values) \/ w0.err THEN w0
    ELSE IF values[k].kind = "Fragment"
         THEN LET r == CalloutLine(values[k].values, 1, found, <<>>)
              IN  CalloutBody(values, k + 1, r.found,
                      IF trim(r.line) # <<>> /\ r.found
                      THEN Wln(w0, <<BOX_V, " ">> \o r.line)
                      ELSE w0)
         ELSE CalloutBody(values, k + 1, found,
                  IF found
                  THEN render_node_inline(values[k], 0, FALSE, W(w0, <<BOX_V, " ">>))
                  ELSE w0)

\* if !callout_text.is_empty() { writeln!("│ {}", callout_text)?; }
CalloutFirstLine(callout_text, w1) ==
    IF callout_text # <<>> THEN Wln(w1, <<BOX_V, " ">> \o callout_text) ELSE w1

\* the panel, c being callout_info and callout_text of the first loop
CalloutPanel(blockquote, c, w0) ==
    IF c.info # 0
    THEN Wln(CalloutBody(blockquote.values, 1, FALSE,
                CalloutFirstLine(c.text,
                    Wln(w0, <<BOX_TL, BOX_H, " ">>
                              \o Styled("1;" \o CALLOUTS[c.info].color,
                                         CALLOUTS[c.info].icon \o <<" ">>
                                            \o CALLOUTS[c.info].name)))),
             <<BOX_BL, BOX_H>>)
    ELSE w0

render_callout_blockquote(blockquote, w0) ==
    CalloutPanel(blockquote, FindCallout(blockquote.values, 1), w0)

RegularQuoteFrom(values, k, depth, w0) ==
    IF k > Len(values) \/ w0.err THEN w0
    ELSE RegularQuoteFrom(values, k + 1, depth,
            render_node_inline(values[k], depth, FALSE,
                               W(w0, Styled("90", <<QUOTE_BAR>>) \o <<" ">>)))

\* a quote renderer that drops the io::Result of its children instead of `?`
render_regular_blockquote_Swallows(blockquote, depth, w0) ==
    [RegularQuoteFrom(blockquote.values, 1, depth, w0) EXCEPT !.err = FALSE]

render_regular_blockquote(blockquote, depth, w0) ==
    RegularQuoteFrom(blockquote.values, 1, depth, w0)

(***************************************************************************)
(* Lists.                                                                  *)
(***************************************************************************)
DigitChars == <<"0", "1", "2", "3", "4", "5", "6", "7", "8", "9">>

RECURSIVE Digits(_)
\* format!("{}", n)
Digits(n) == IF n < 10 THEN <<DigitChars[n + 1]>>
             ELSE Append(Digits(n \div 10), DigitChars[(n % 10) + 1])

\* a bullet that is the first glyph of the palette at every depth
ListBullet_TopGlyph(list, depth) ==
    IF list.ordered THEN Append(Digits(list.index + 1), ".")
    ELSE <<LIST_BULLETS[1]>>

ListBullet(list, depth) ==
    IF list.ordered THEN Append(Digits(list.index + 1), ".")
    ELSE <<LIST_BULLETS[(depth % Len(LIST_BULLETS)) + 1]>>

\* a checkbox that shows the empty box for a checked item and the ticked one
\* for an unchecked item
ListCheckbox_Swapped(list) ==
    CASE list.checked = "true" -> <<"U+2610", " ">>
      [] list.checked = "false" -> <<"U+2611", "U+FE0F", " ">>
      [] OTHER -> <<>>

ListCheckbox(list) ==
    CASE list.checked = "true" -> <<"U+2611", "U+FE0F", " ">>
      [] list.checked = "false" -> <<"U+2610", " ">>
      [] OTHER -> <<>>

ListItems(values, k, depth, has_content, w0) ==
    IF w0.err THEN w0
    ELSE IF k > Len(values) THEN Wln(w0, <<>>)
    ELSE CASE values[k].kind = "List" ->
                ListItems(values, k + 1, depth, has_content,
                    render_list(values[k], depth + 1,
                                IF has_content THEN Wln(w0, <<>>) ELSE w0))
           [] values[k].kind = "Fragment" ->
                ListItems(values, k + 1, depth, TRUE,
                    RenderEach(values[k].values, 1, depth + 1, TRUE, w0))
           [] OTHER ->
                ListItems(values, k + 1, depth, TRUE,
                    render_node_inline(values[k], depth + 1, TRUE, w0))

render_list(list, depth, w0) ==
    IF w0.err THEN w0
    ELSE ListItems(list.values, 1, depth, FALSE,
            W(w0, repeat(" ", 2 * depth) \o Styled("95", ListBullet(list, depth))
                    \o <<" ">> \o ListCheckbox(list)))

(***************************************************************************)
(* The Node Dispatcher.                                                    *)
(***************************************************************************)
\* (heading.depth - 1) as usize, depth a u8: the 0-based index, -1 for the
\* panic of the subtraction in a build with overflow checks; without them
\* the subtraction wraps
HeaderIndex(depth, checks) ==
    IF depth - 1 < 0 /\ checks THEN -1 ELSE (depth - 1) % 256

\* HEADER_SYMBOLS.get(index).unwrap_or(&"\u{2465}"), the index having wrapped
HeaderSymbol(depth) ==
    IF HeaderIndex(depth, FALSE) + 1 <= Len(HEADER_SYMBOLS)
    THEN HEADER_SYMBOLS[HeaderIndex(depth, FALSE) + 1]
    ELSE "U+2465"

HeadingColor(depth) ==
    CASE depth = 1 -> "1;94" [] depth = 2 -> "1;36" [] depth = 3 -> "1;33"
      [] depth = 4 -> "1;32" [] depth = 5 -> "1;35" [] OTHER -> "1;37"

\* symbol.bold().colour(), a space, text.bold().colour(), newline
HeadingTitle(depth, text, w0) ==
    Wln(w0, Styled(HeadingColor(depth), <<HeaderSymbol(depth)>>) \o <<" ">>
              \o Styled(HeadingColor(depth), text))

\* a heading whose rule lines are as wide as the text, without the padding
RenderHeading_RuleAsWideAsText(heading, inline, w0) ==
    LET w1 == IF ~inline THEN Wln(w0, <<>>) ELSE w0
        text == render_inline_content(heading.values)
        w2 == CASE heading.depth = 1 ->
                    LET line == Styled("94", repeat(BOX_DH, chars_count(text)))
                    IN  Wln(HeadingTitle(1, text, Wln(w1, line)), line)
                [] heading.depth = 2 ->
                    Wln(HeadingTitle(2, text, w1),
                        Styled("36", repeat(BOX_H, chars_count(text))))
                [] OTHER -> HeadingTitle(heading.depth, text, w1)
    IN  Wln(w2, <<>>)

RenderHeading(heading, inline, w0) ==
    LET w1 == IF ~inline THEN Wln(w0, <<>>) ELSE w0
        text == render_inline_content(heading.values)
        w2 == CASE ~w1.err /\ HeaderIndex(heading.depth, w1.checks) = -1 ->
                    [w1 EXCEPT !.panic = TRUE, !.err = TRUE]
                [] heading.depth = 1 ->
                    LET line == Styled("94", repeat(BOX_DH, chars_count(text) + 4))
                    IN  Wln(HeadingTitle(1, text, Wln(w1, line)), line)
                [] heading.depth = 2 ->
                    Wln(HeadingTitle(2, text, w1),
                        Styled("36", repeat(BOX_H, chars_count(text) + 4)))
                [] OTHER -> HeadingTitle(heading.depth, text, w1)
    IN  Wln(w2, <<>>)

\* a Text arm without the trim().is_empty() test
RenderText_NoTrim(text, inline, w0) ==
    IF inline THEN W(w0, text.value) ELSE Wln(w0, text.value)

RenderText(text, inline, w0) ==
    IF trim(text.value) # <<>>
    THEN IF inline THEN W(w0, text.value) ELSE Wln(w0, text.value)
    ELSE w0

\* an instance that answers a call with the result of the call before it
HighlightVia_KeepsLast(code, lang, w0) ==
    IF w0.hl # <<>> THEN w0.hl[Len(w0.hl)].result
    ELSE highlight(code, lang, EngineWholeSpan(code))

\* highlighter.highlight(code, lang) on the instance w0 carries: the config is
\* built anew from lang, the engine is asked, nothing of the instance is read
HighlightVia(code, lang, w0) == highlight(code, lang, EngineWholeSpan(code))

\* the call made (not after an Err: `?` has returned) and kept in the instance
Highlighted(code, lang, w0) ==
    IF w0.err THEN w0
    ELSE [w0 EXCEPT !.hl = Append(@, [code |-> code, lang |-> lang,
                                      result |-> HighlightVia(code, lang, w0)])]

\* write!(writer, "{}{}", highlighted, end)?, highlighted the result of the
\* last call and end nothing or the newline of writeln!
WriteHighlighted(w0, end) ==
    IF w0.err THEN w0 ELSE W(w0, w0.hl[Len(w0.hl)].result \o end)

RenderCode(code, w0) ==
    LET w1 == W(w0, Styled("90", <<BACKTICK, BACKTICK, BACKTICK>>))
        w2 == IF code.lang # <<>> THEN W(w1, Styled("90", code.lang[1])) ELSE w1
        w3 == Wln(w2, <<>>)
        w4 == WriteHighlighted(Highlighted(code.value, code.lang, w3), <<>>)
        w5 == Wln(w4, <<>>)
        w6 == Wln(w5, Styled("90", <<BACKTICK, BACKTICK, BACKTICK>>))
    IN  Wln(w6, <<>>)

RenderLink(link, w0) ==
    LET text == render_inline_content(link.values)
    IN  IF trim(text) = <<>>
        THEN W(w0, <<" ">> \o Styled("94", <<LINK_GLYPH>>) \o <<" ">>
                     \o make_clickable_link(link.url, link.url))
        ELSE W(w0, <<" ">> \o Styled("94", <<LINK_GLYPH>>) \o <<" ">>
                     \o Styled("4;94", make_clickable_link(link.url, text)))

\* the paths for which Path::exists() is true in the run: a file i.png, and
\* a file i inside a directory named "http:"
ExistingPaths == {<<"i", ".", "p", "n", "g">>, <<"h","t","t","p",":","/","/","i">>}

\* a guard that goes to the file system without looking at the scheme
ImageDisplayed_NoRemoteCheck(path) == path \in ExistingPaths

\* render_image_to_terminal: the display collaborator is reached or not
ImageDisplayed(path) ==
    /\ ~starts_with(path, <<"h","t","t","p",":","/","/">>)
    /\ ~starts_with(path, <<"h","t","t","p","s",":","/","/">>)
    /\ path \in ExistingPaths

\* the call returns Ok(()) whatever image::open and viuer::print answer; it
\* writes nothing to the sink
render_image_to_terminal(path, w0) ==
    IF ImageDisplayed(path)
    THEN [w0 EXCEPT !.display = Append(@, [path |-> path, result |-> w0.viuer])]
    ELSE w0

RenderImage(image, w0) ==
    LET w1 == render_image_to_terminal(image.url, w0)
    IN  IF trim(image.alt) = <<>>
        THEN Wln(w1, Styled("92", IMAGE_GLYPH) \o <<" ">> \o Styled("4;92", image.url))
        ELSE Wln(w1, Styled("92", IMAGE_GLYPH) \o <<" ">> \o Styled("92", image.alt)
                       \o <<" ", "(">> \o Styled("90", image.url) \o <<")">>)

RenderBlockquote(blockquote, depth, inline, w0) ==
    LET w1 == IF ~inline THEN Wln(w0, <<>>) ELSE w0
        w2 == IF QuoteIsCallout(blockquote.values)
              THEN render_callout_blockquote(blockquote, w1)
              ELSE render_regular_blockquote(blockquote, depth, w1)
    IN  Wln(w2, <<>>)

render_node_inline(node, depth, inline, w0) ==
    IF w0.err THEN w0
    ELSE CASE node.kind = "Heading" -> RenderHeading(node, inline, w0)
           [] node.kind = "Text" -> RenderText(node, inline, w0)
           [] node.kind = "List" -> render_list(node, depth, w0)
           [] node.kind = "Code" -> RenderCode(node, w0)
           [] node.kind = "CodeInline" ->
                W(w0, Styled("93", <<BACKTICK>> \o node.value \o <<BACKTICK>>))
           [] node.kind = "Strong" ->
                W(w0, Styled("1", render_inline_content(node.values)))
           [] node.kind = "Emphasis" ->
                W(w0, Styled("3", render_inline_content(node.values)))
           [] node.kind = "Link" -> RenderLink(node, w0)
           [] node.kind = "Image" -> RenderImage(node, w0)
           [] node.kind = "HorizontalRule" ->
                Wln(Wln(w0, Styled("90", repeat(BOX_H, 80))), <<>>)
           [] node.kind = "Blockquote" -> RenderBlockquote(node, depth, inline, w0)
           [] node.kind = "Html" ->
                WriteHighlighted(Highlighted(node.value, <<(<<"h","t","m","l">>)>>, w0),
                                 <<NL>>)
           [] node.kind = "Break" -> IF inline THEN W(w0, <<" ">>) ELSE Wln(w0, <<>>)
           [] node.kind = "Fragment" ->
                LET w1 == RenderEach(node.values, 1, depth, TRUE, w0)
                IN  IF ~inline THEN Wln(w1, <<>>) ELSE w1
           [] node.kind \in {"TableHeader", "TableRow"} -> w0
           [] node.kind = "TableCell" ->
                render_table_cell(node, calculate_column_widths(<<node>>), w0)
           [] OTHER -> w0

render_node(node, depth, w0) == render_node_inline(node, depth, FALSE, w0)

(***************************************************************************)
(* render_markdown: the top-level walk, one loop iteration a step.         *)
(***************************************************************************)
RECURSIVE TakeTable_OnlyCells(_, _)
\* a take_while that stops at the first node that is not a TableCell
TakeTable_OnlyCells(ns, k) ==
    IF k <= Len(ns) /\ ns[k].kind = "TableCell"
    THEN 1 + TakeTable_OnlyCells(ns, k + 1) ELSE 0

RECURSIVE TakeTable(_, _)
\* markdown.nodes[k..].iter().take_while(table node): how many it takes
TakeTable(ns, k) ==
    IF k <= Len(ns) /\ IsTableNode(ns[k]) THEN 1 + TakeTable(ns, k + 1) ELSE 0

WalkResult(w1) == IF w1.panic THEN "Panic" ELSE IF w1.err THEN "Err" ELSE "walk"

\* the branch of a node that is a TableCell: the run goes to render_table
WalkTable ==
    /\ pc = "walk"
    /\ i <= Len(nodes)
    /\ nodes[i].kind = "TableCell"
    /\ \E table_nodes \in {SubSeq(nodes, i, i + TakeTable(nodes, i) - 1)} :
       \E w1 \in {render_table(table_nodes, w)} :
           /\ w' = w1
           /\ pc' = WalkResult(w1)
           /\ i' = IF w1.err THEN i ELSE i + Len(table_nodes)
           /\ log' = Append(log, [to |-> "render_table", at |-> i,
                                   len |-> Len(table_nodes),
                                   widths |-> calculate_column_widths(table_nodes)])
    /\ UNCHANGED <<nodes, arg, ret>>

\* the else branch: the node goes to render_node
WalkNode ==
    /\ pc = "walk"
    /\ i <= Len(nodes)
    /\ nodes[i].kind # "TableCell"
    /\ \E w1 \in {render_node(nodes[i], 0, w)} :
           /\ w' = w1
           /\ pc' = WalkResult(w1)
           /\ i' = IF w1.err THEN i ELSE i + 1
           /\ log' = Append(log, [to |-> "render_node", at |-> i, len |-> 1,
                                   widths |-> <<>>])
    /\ UNCHANGED <<nodes, arg, ret>>

\* the loop ends: Ok(())
WalkReturn ==
    /\ pc = "walk"
    /\ i > Len(nodes)
    /\ pc' = "Ok"
    /\ UNCHANGED <<nodes, i, w, log, arg, ret>>

(***************************************************************************)
(* Documents of the model.                                                 *)
(***************************************************************************)
\* every sequence over S of length lo..hi
SeqsOf(S, lo, hi) == UNION {[1..n -> S] : n \in lo..hi}

TextA == Text(<<"a">>)
TextAb == Text(<<"a", "b">>)
StrongB == Strong(<<Text(<<"b">>)>>)

\* top-level nodes of the walk: one of each table kind, and two others
WalkNodes == {
    Text(<<"h", "i">>),
    Fragment(<<TextA, StrongB>>),
    TableCell(<<TextAb>>, 0, 0, TRUE),
    TableHeader(<<"None">>),
    TableRow(<<TableCell(<<TextA>>, 0, 1, TRUE)>>) }

WalkDocs == SeqsOf(WalkNodes, 0, MaxDoc)

TextAbc == Text(<<"a", "b", "c">>)
LinkA == Link(<<TextA>>, <<"u">>)

\* flat cells that can open a run
FlatCells == {
    TableCell(<<TextAb>>, 0, 0, FALSE),
    TableCell(<<TextA, StrongB>>, 1, 0, TRUE),
    TableCell(<<CodeInline(<<"x">>)>>, 0, 1, FALSE) }

\* nodes of a table run: flat cells, a header of as many columns as the rows
\* have cells, one of fewer and one of more, a row of two cells, and a row
\* whose only cell carries column 1
TableItems == FlatCells \cup {
    TableHeader(<<"Left", "None">>),
    TableHeader(<<"Center">>),
    TableHeader(<<"None", "Right", "None">>),
    TableRow(<<TableCell(<<LinkA>>, 0, 1, FALSE), TableCell(<<TextAbc>>, 1, 1, TRUE)>>),
    TableRow(<<TableCell(<<TextAbc>>, 1, 2, TRUE)>>) }

\* documents that are one table run, opened by a flat cell
TableDocs ==
    {<<c>> \o rest : c \in FlatCells, rest \in SeqsOf(TableItems, 0, MaxRun - 1)}

InitWalk(docs, failAts) ==
    /\ nodes \in docs
    /\ i = 1
    /\ w \in {NewWriter(f) : f \in failAts}
    /\ pc = "walk"
    /\ log = <<>>
    /\ arg = <<>>
    /\ ret = <<>>

Init == InitWalk(WalkDocs, {0})

InitTable == InitWalk(TableDocs, {0})

NextTable == WalkTable \/ WalkReturn

SpecTable == InitTable /\ [][NextTable]_vars

Next == WalkTable \/ WalkNode \/ WalkReturn

Spec == Init /\ [][Next]_vars

(***************************************************************************)
(* Reading the output back: escapes dropped, lines split.                  *)
(***************************************************************************)
SgrCodes == {"1", "3", "4;94", "4;92", "90", "92", "93", "94", "95", "96", "36",
             "1;94", "1;36", "1;33", "1;32", "1;35", "1;37",
             "1;34", "1;31"} \cup {HighlightColors[k] : k \in 1..Len(HighlightColors)}

SgrTokens == {RESET} \cup {Sgr(c) : c \in SgrCodes}

IsSgr(tok) == tok \in SgrTokens

\* s[k] stands inside an OSC sequence: more ESC ] before it than ESC \ ended
OscOpen(s, k) ==
    Cardinality({p \in 1..k : s[p] = ESC /\ p < Len(s) /\ s[p + 1] = "]"})
      > Cardinality({q \in 2..(k - 1) : s[q - 1] = ESC /\ s[q] = "\\"})

VisibleIdx(s) == {k \in 1..Len(s) : ~IsSgr(s[k]) /\ ~OscOpen(s, k)}

\* the codepoints a terminal shows: SGR directives and OSC 8 sequences dropped
Visible(s) ==
    LET idx == VisibleIdx(s)
    IN  [k \in 1..Cardinality(idx) |->
            s[CHOOSE x \in idx : Cardinality({y \in idx : y < x}) = k - 1]]

RECURSIVE Lines(_)
\* the lines of s, each without its newline; what follows the last newline is a line
Lines(s) ==
    IF ~contains(s, NL) THEN <<s>>
    ELSE <<SubSeq(s, 1, find(s, NL) - 1)>> \o Lines(SubSeq(s, find(s, NL) + 1, Len(s)))

\* the 0-based offsets in line at which one of the codepoints cs stands
Offsets(line, cs) == {k - 1 : k \in {j \in 1..Len(line) : line[j] \in cs}}

(***************************************************************************)
(* C2: whenever the walk reaches the first node of a table-shaped run,     *)
(* whatever its kind (TableCell, TableHeader, TableRow), the whole run is  *)
(* handed to render_table exactly once and no node of the run is rendered  *)
(* by the node dispatcher.                                                 *)
(***************************************************************************)
IsRunStart(k) ==
    /\ k \in 1..Len(nodes)
    /\ IsTableNode(nodes[k])
    /\ (k = 1 \/ ~IsTableNode(nodes[k - 1]))

HandedToTable(k, len) ==
    Cardinality({e \in 1..Len(log) :
        log[e].to = "render_table" /\ log[e].at = k /\ log[e].len = len}) = 1

C2_WholeRunToTableEngine ==
    /\ \A k \in 1..Len(nodes) :
        (IsRunStart(k) /\ i > k) => HandedToTable(k, TakeTable(nodes, k))
    /\ \A e \in 1..Len(log) :
        log[e].to = "render_node" => ~IsTableNode(nodes[log[e].at])

(***************************************************************************)
(* Table runs read back from the state.                                    *)
(***************************************************************************)
\* the runs handed to the table engine so far, as log entries
TableEntries == {e \in 1..Len(log) : log[e].to = "render_table"}

RunOf(e) == SubSeq(nodes, log[e].at, log[e].at + log[e].len - 1)

FlatWidth(cell) == chars_count(render_inline_content(cell.values))

\* every TableCell of a run as [col, width]: a flat cell under its column field,
\* a row-wrapped cell under its column field or under its place in the row
CellsOf(run, byPlace) ==
    {[col |-> run[k].column, width |-> FlatWidth(run[k])] :
        k \in {j \in 1..Len(run) : run[j].kind = "TableCell"}}
    \cup UNION {
        {[col |-> IF byPlace THEN j - 1 ELSE run[k].values[j].column,
          width |-> FlatWidth(run[k].values[j])] :
            j \in {m \in 1..Len(run[k].values) : run[k].values[m].kind = "TableCell"}} :
        k \in {j \in 1..Len(run) : run[j].kind = "TableRow"}}

SetMax(S) == IF S = {} THEN 0 ELSE CHOOSE m \in S : \A v \in S : v <= m

ColumnMax(cells, c) == SetMax({x.width : x \in {y \in cells : y.col = c}})

WidthsAreColumnMax(e, byPlace) ==
    LET cells == CellsOf(RunOf(e), byPlace)
    IN  /\ Len(log[e].widths) = SetMax({x.col + 1 : x \in cells})
        /\ \A c \in 0..(Len(log[e].widths) - 1) :
                log[e].widths[c + 1] = ColumnMax(cells, c)

(***************************************************************************)
(* C3 as stated: for every table run and every column index, the computed  *)
(* column width is the maximum flattened codepoint count over every        *)
(* TableCell of the run whose column field is that index, flat cells and   *)
(* row-wrapped cells alike.                                                *)
(***************************************************************************)
C3_WidthIsMaxByColumnField == \A e \in TableEntries : WidthsAreColumnMax(e, FALSE)

(***************************************************************************)
(* C3 amended: the computed width of column c is the maximum flattened     *)
(* codepoint count over the flat cells whose column field is c and the     *)
(* row-wrapped cells that stand at place c of their TableRow.              *)
(***************************************************************************)
C3_WidthIsMaxByPlaceInRow == \A e \in TableEntries : WidthsAreColumnMax(e, TRUE)

\* a run whose widest cell of column 0 is a row-wrapped one, beside a flat one
C3_Witness ==
    \E e \in TableEntries :
        /\ pc = "Ok"
        /\ \E k \in 1..Len(RunOf(e)) : RunOf(e)[k].kind = "TableRow"
        /\ \E x \in CellsOf(RunOf(e), TRUE) :
                x.col = 0 /\ x.width = log[e].widths[1] /\ x.width > 3

(***************************************************************************)
(* C4: in a rendered table run, for every cell (flat or row-wrapped, any   *)
(* mix of Text, Strong, Emphasis, CodeInline and Link children) what the   *)
(* cell's children render plus the padding is as wide as the cell's        *)
(* column, so the vertical bars of every row stand at the same offsets,    *)
(* those of the joints of the top border.                                  *)
(***************************************************************************)
\* cells in row-major order: every flat row and every TableRow has cols cells,
\* column fields count from 0, last_cell_in_row closes each flat row
WellFormedRun(run, cols) ==
    /\ cols > 0
    /\ \A k \in 1..Len(run) :
        /\ run[k].kind = "TableCell" =>
            /\ run[k].column =
                    IF k > 1 /\ run[k - 1].kind = "TableCell"
                             /\ ~run[k - 1].last_cell_in_row
                    THEN run[k - 1].column + 1
                    ELSE 0
            /\ run[k].last_cell_in_row = (run[k].column = cols - 1)
            /\ ~run[k].last_cell_in_row =>
                    (k < Len(run) /\ run[k + 1].kind = "TableCell")
        /\ run[k].kind = "TableRow" =>
            /\ Len(run[k].values) = cols
            /\ \A j \in 1..cols :
                /\ run[k].values[j].kind = "TableCell"
                /\ run[k].values[j].column = j - 1
        /\ run[k].kind = "TableHeader" => Len(run[k].align) = cols

VisibleLines(out) == {Visible(l) : l \in {Lines(out)[k] : k \in 1..Len(Lines(out))}}

C4_BarsAlignWithBorder ==
    (pc = "Ok" /\ Len(log) = 1 /\ log[1].to = "render_table"
        /\ WellFormedRun(RunOf(1), Len(log[1].widths)))
    => \A top \in {l \in VisibleLines(w.out) : l # <<>> /\ l[1] = BOX_TL} :
       \A row \in {l \in VisibleLines(w.out) : l # <<>> /\ l[1] = BOX_V} :
            Offsets(row, {BOX_V}) = Offsets(top, {BOX_TL, BOX_TT, BOX_TR})

(***************************************************************************)
(* Documents rendered into a sink that fails: every construct that renders *)
(* children of its own (nested list, regular quote, callout, table run),   *)
(* and the sink failing at its k-th write for every k up to MaxFailAt.     *)
(***************************************************************************)
NoteText == Text(<<"[", "!", "N", "O", "T", "E", "]", " ", "a">>)

ItemA == Fragment(<<TextA>>)

FailNodes == {
    Text(<<"h", "i">>),
    Heading(1, <<TextA>>),
    Code(<<"x">>, <<(<<"r", "s">>)>>),
    List(FALSE, 0, "none", <<ItemA, List(TRUE, 0, "true", <<ItemA>>)>>),
    Blockquote(<<ItemA, TextAb>>),
    Blockquote(<<Fragment(<<NoteText>>), List(FALSE, 0, "none", <<ItemA>>)>>),
    TableCell(<<TextAb>>, 0, 0, TRUE),
    TableRow(<<TableCell(<<TextA>>, 0, 1, FALSE), TableCell(<<StrongB>>, 1, 1, TRUE)>>) }

FailDocs == SeqsOf(FailNodes, 1, 2)

InitFail == InitWalk(FailDocs, 0..MaxFailAt)

SpecFail == InitFail /\ [][Next]_vars

RECURSIVE Unfailed(_, _, _)
\* the walk from the k-th node on, into a writer that is never refused
Unfailed(ns, k, w0) ==
    IF k > Len(ns) THEN w0
    ELSE IF ns[k].kind = "TableCell"
         THEN Unfailed(ns, k + TakeTable(ns, k),
                       render_table(SubSeq(ns, k, k + TakeTable(ns, k) - 1), w0))
         ELSE Unfailed(ns, k + 1, render_node(ns[k], 0, w0))

IsPrefix(s, t) == Len(s) <= Len(t) /\ SubSeq(t, 1, Len(s)) = s

(***************************************************************************)
(* C1: when a write to the sink fails during render_markdown the call     *)
(* returns that failure (Err, never Ok and never a further loop           *)
(* iteration), and the failing write is the last one the sink is asked    *)
(* for: the count of writes stays at the failing one and what the sink    *)
(* holds is the part of the unfailed rendering written before it, at any  *)
(* recursion depth.                                                       *)
(***************************************************************************)
C1_WriteFailureStopsRender ==
    /\ pc \in {"walk", "Ok", "Err"}
    /\ (pc = "Err") = w.err
    /\ (w.failAt # 0 /\ w.n >= w.failAt) => (w.err /\ w.n = w.failAt)
    /\ w.err => (w.failAt # 0 /\ w.n = w.failAt)
    /\ IsPrefix(w.out, Unfailed(nodes, 1, NewWriter(0)).out)

\* the sink refused a write inside the body of a quote or a panel, after some
\* output, with more than one write of the document still to come
C1_Witness ==
    /\ pc = "Err"
    /\ nodes[i].kind = "Blockquote"
    /\ w.out # <<>>
    /\ \E k \in 1..Len(w.out) : w.out[k] \in {QUOTE_BAR, BOX_V}
    /\ w.n + 1 < Unfailed(nodes, 1, NewWriter(0)).n

(***************************************************************************)
(* detect_callout as a call: arg is the text, ret the answer.  The texts   *)
(* are put together from leading whitespace, an opener, a tag word, a      *)
(* closer and a rest.                                                      *)
(***************************************************************************)
TagWords == {
    <<"N","O","T","E">>, <<"T","I","P">>, <<"I","M","P","O","R","T","A","N","T">>,
    <<"W","A","R","N","I","N","G">>, <<"C","A","U","T","I","O","N">>,
    <<"n","o","t","e">>, <<"T","i","p">>, <<"w","A","r","N","i","N","g">>,
    <<"c","a","u","t","i","o","N">>,
    <<"I","N","F","O">>, <<"N","O","T","E","S">>, <<"N","O","T">>, <<>>,
    <<" ","N","O","T","E">>, <<"N","O","T","E"," ">>, <<"!","T","I","P">> }

DetectTexts == {
    lead \o open \o tag \o close \o rest :
        lead \in {<<>>, <<" ">>, <<"\t", " ">>},
        open \in {<<"[", "!">>, <<"[">>, <<"!", "[">>, <<"[", " ", "!">>, <<>>},
        tag \in TagWords,
        close \in {<<"]">>, <<>>, <<"]", "]">>},
        rest \in {<<>>, <<" ", "x">>, <<"x", "]", " ">>} }

InitDetect ==
    /\ arg \in DetectTexts
    /\ pc = "call"
    /\ ret = 0
    /\ nodes = <<>>
    /\ i = 1
    /\ w = NewWriter(0)
    /\ log = <<>>

CallDetectCallout ==
    /\ pc = "call"
    /\ ret' = detect_callout(arg)
    /\ pc' = "ret"
    /\ UNCHANGED <<nodes, i, w, log, arg>>

NextDetect == CallDetectCallout

SpecDetect == InitDetect /\ [][NextDetect]_vars

\* a and b are the same word up to the case of their letters
SameLetters(a, b) ==
    /\ Len(a) = Len(b)
    /\ \A k \in 1..Len(a) :
        \/ a[k] = b[k]
        \/ \E j \in 1..26 : {a[k], b[k]} = {UpperLetters[j], LowerLetters[j]}

\* the words between a leading "[!" and the first "]" of the trimmed text:
\* one word, or none when the text has not that shape
MarkerWords(text) ==
    LET t == trim(text)
    IN  IF Len(t) >= 2 /\ t[1] = "[" /\ t[2] = "!" /\ \E k \in 1..Len(t) : t[k] = "]"
        THEN LET close == CHOOSE k \in 1..Len(t) :
                              t[k] = "]" /\ \A j \in 1..(k - 1) : t[j] # "]"
             IN  {SubSeq(t, 3, close - 1)}
        ELSE {}

(***************************************************************************)
(* C5: detect_callout(text) answers with a descriptor exactly when the    *)
(* trimmed text starts with "[!", holds a "]", and the word between "[!"   *)
(* and the first "]" is NOTE, TIP, IMPORTANT, WARNING or CAUTION up to     *)
(* letter case; the descriptor is that tag's.  Another bracketed word, or  *)
(* a marker without the "!", gives no match.                               *)
(***************************************************************************)
C5_DetectIffKnownTag ==
    pc = "ret" =>
        /\ ret \in 0..Len(CALLOUTS)
        /\ (ret # 0) = (\E word \in MarkerWords(arg) : \E k \in 1..Len(CALLOUTS) :
                            SameLetters(CALLOUTS[k].tag, word))
        /\ ret # 0 => \A word \in MarkerWords(arg) : SameLetters(CALLOUTS[ret].tag, word)

\* a WARNING marker in mixed case behind leading whitespace, text after it
C5_Witness ==
    /\ pc = "ret"
    /\ ret = 4
    /\ arg[1] = " "
    /\ \E k \in 1..Len(arg) : arg[k] = "w"
    /\ arg[Len(arg)] = "x"

(***************************************************************************)
(* One blockquote at the top level, its children drawn from QuoteKids:     *)
(* markers in a Fragment and in a direct Text, in upper and lower case,    *)
(* behind another Text; malformed markers; a marker inside a Strong, which *)
(* the scan does not read; a list.                                         *)
(***************************************************************************)
QuoteKids == {
    Fragment(<<NoteText>>),
    Fragment(<<TextA, Text(<<"[", "!", "t", "i", "p", "]">>)>>),
    Text(<<"[", "!", "W", "A", "R", "N", "I", "N", "G", "]", " ", "b">>),
    Fragment(<<Text(<<"[", "!", "I", "N", "F", "O", "]", " ", "a">>)>>),
    Text(<<"[", "!", "N">>),
    Fragment(<<Text(<<"[", "!", "]">>)>>),
    Text(<<"[", "N", "O", "T", "E", "]">>),
    Strong(<<Text(<<"[", "!", "N", "O", "T", "E", "]">>)>>),
    List(FALSE, 0, "none", <<ItemA>>) }

QuoteDocs == {<<Blockquote(kids)>> : kids \in SeqsOf(QuoteKids, 0, MaxKids)}

InitQuote == InitWalk(QuoteDocs, {0})

NextQuote == WalkNode \/ WalkReturn

SpecQuote == InitQuote /\ [][NextQuote]_vars

RECURSIVE ScannedTexts(_, _)
\* the texts the scans read, in document order: a direct Text child, and the
\* Text children of a direct Fragment child
ScannedTexts(values, k) ==
    IF k > Len(values) THEN <<>>
    ELSE (CASE values[k].kind = "Text" -> <<values[k].value>>
            [] values[k].kind = "Fragment" ->
                 LET kids == values[k].values
                     idx == {j \in 1..Len(kids) : kids[j].kind = "Text"}
                 IN  [n \in 1..Cardinality(idx) |->
                        kids[CHOOSE x \in idx :
                                Cardinality({y \in idx : y < x}) = n - 1].value]
            [] OTHER -> <<>>)
         \o ScannedTexts(values, k + 1)

\* text carries a marker of one of the five tags
ValidMarker(text) ==
    \E word \in MarkerWords(text) : \E k \in 1..Len(CALLOUTS) :
        SameLetters(CALLOUTS[k].tag, word)

Count(s, c) == Cardinality({k \in 1..Len(s) : s[k] = c})

(***************************************************************************)
(* C6: a blockquote none of whose scanned texts (a direct Text child, a    *)
(* Text child of a direct Fragment child) carries a valid marker - an      *)
(* unknown tag, "[!" without "]" and "[!]" included - is rendered by the   *)
(* regular quote renderer, one bar per child and no panel corner in the    *)
(* output; and detect_callout panics on none of the texts.                 *)
(***************************************************************************)
C6_NoMarkerIsRegularQuote ==
    LET values == nodes[1].values
        texts == ScannedTexts(values, 1)
    IN  /\ \A k \in 1..Len(texts) : detect_callout(texts[k]) >= 0
        /\ (i = 2 /\ \A k \in 1..Len(texts) : ~ValidMarker(texts[k])) =>
            /\ Count(w.out, BOX_TL) = 0
            /\ Count(w.out, BOX_BL) = 0
            /\ Count(w.out, QUOTE_BAR) = Len(values)

\* a quote of an unknown tag, an unclosed marker and an empty tag, rendered
C6_Witness ==
    /\ i = 2
    /\ Len(nodes[1].values) = 3
    /\ nodes[1].values[1] = Fragment(<<Text(<<"[", "!", "I", "N", "F", "O", "]", " ", "a">>)>>)
    /\ nodes[1].values[2] = Text(<<"[", "!", "N">>)
    /\ nodes[1].values[3] = Fragment(<<Text(<<"[", "!", "]">>)>>)
    /\ Count(w.out, QUOTE_BAR) = 3

\* the visible lines of the output, in order
VisibleLineSeq(out) == [k \in 1..Len(Lines(out)) |-> Visible(Lines(out)[k])]

\* the first scanned text, in document order, that carries a valid marker
FirstMarker(values) ==
    LET texts == ScannedTexts(values, 1)
    IN  texts[CHOOSE k \in 1..Len(texts) :
                /\ ValidMarker(texts[k])
                /\ \A j \in 1..(k - 1) : ~ValidMarker(texts[j])]

\* the top line of the panel of descriptor c, as a terminal shows it
PanelTop(c) == <<BOX_TL, BOX_H, " ">> \o c.icon \o <<" ">> \o c.name

(***************************************************************************)
(* C7: when the dispatcher classifies a blockquote as a callout, the       *)
(* callout renderer finds the descriptor of the first marker in document   *)
(* order, and the output of the blockquote has exactly one top line        *)
(* "┌─ icon Name", before every body line, and exactly one closing line    *)
(* "└─", after every body line.                                            *)
(***************************************************************************)
C7_OnePanelTopAndClose ==
    (i = 2 /\ QuoteIsCallout(nodes[1].values)) =>
        LET values == nodes[1].values
            found == FindCallout(values, 1).info
            lines == VisibleLineSeq(w.out)
            tops == {k \in 1..Len(lines) : starts_with(lines[k], <<BOX_TL, BOX_H>>)}
            closes == {k \in 1..Len(lines) : lines[k] = <<BOX_BL, BOX_H>>}
            body == {k \in 1..Len(lines) : lines[k] # <<>>} \ (tops \cup closes)
        IN  /\ found \in 1..Len(CALLOUTS)
            /\ \A word \in MarkerWords(FirstMarker(values)) :
                    SameLetters(CALLOUTS[found].tag, word)
            /\ Cardinality(tops) = 1
            /\ \A k \in tops : lines[k] = PanelTop(CALLOUTS[found])
            /\ Cardinality(closes) = 1
            /\ \A t \in tops : \A b \in body : t < b
            /\ \A c \in closes : \A b \in body : b < c

(***************************************************************************)
(* render_inline_content as a call: arg is the node sequence, ret the      *)
(* flattened string.                                                       *)
(***************************************************************************)
InlineNodes == {
    TextA,
    Text(<<"a", " ">>),
    Text(<<>>),
    Break,
    StrongB,
    Strong(<<>>),
    Emphasis(<<CodeInline(<<"x">>), StrongB>>),
    CodeInline(<<"x">>),
    LinkA,
    Link(<<>>, <<"u">>),
    Image(<<"a">>, <<"u">>),
    Code(<<"x">>, <<>>) }

InitFlatten ==
    /\ arg \in SeqsOf(InlineNodes, 0, MaxInline)
    /\ pc = "call"
    /\ ret = <<>>
    /\ nodes = <<>>
    /\ i = 1
    /\ w = NewWriter(0)
    /\ log = <<>>

CallRenderInlineContent ==
    /\ pc = "call"
    /\ ret' = render_inline_content(arg)
    /\ pc' = "ret"
    /\ UNCHANGED <<nodes, i, w, log, arg>>

NextFlatten == CallRenderInlineContent

SpecFlatten == InitFlatten /\ [][NextFlatten]_vars

SpacedKinds == {"Link", "Strong", "Emphasis", "CodeInline"}

RECURSIVE Upto(_, _, _)
\* the string made of the first k nodes: before each its separator seps[j],
\* then what the node contributes
Upto(ns, seps, k) ==
    IF k = 0 THEN <<>>
    ELSE Upto(ns, seps, k - 1) \o seps[k] \o InlinePush(ns[k])

\* seps are the spaces the flattener inserted to make out of ns: none before
\* the first node or before a node of another kind; before a later node of a
\* spaced kind one space unless the string so far ends in one
InsertedSpaces(ns, seps, out) ==
    /\ out = Upto(ns, seps, Len(ns))
    /\ \A k \in 1..Len(ns) :
        /\ (k = 1 \/ ns[k].kind \notin SpacedKinds) => seps[k] = <<>>
        /\ (k > 1 /\ ns[k].kind \in SpacedKinds) =>
                seps[k] = IF ends_with(Upto(ns, seps, k - 1), " ") THEN <<>> ELSE <<" ">>

SepChoices(ns) == [1..Len(ns) -> {<<>>, <<" ">>}]

\* before the contribution of every node of a spaced kind that has a node of
\* a spaced kind somewhere before it, the string ends in a space
SpacedApart(ns, seps) ==
    \A j, k \in 1..Len(ns) :
        (j < k /\ ns[j].kind \in SpacedKinds /\ ns[k].kind \in SpacedKinds) =>
            ends_with(Upto(ns, seps, k - 1) \o seps[k], " ")

(***************************************************************************)
(* C8, as stated: the contributions of two nodes of kind Link, Strong,     *)
(* Emphasis or CodeInline never stand in the flattened string without a    *)
(* space before the later one, and an inserted space is never the first    *)
(* character of the flattened string.                                      *)
(***************************************************************************)
C8_InsertedSpaceNeverFirstCharacter ==
    pc = "ret" =>
        \E seps \in SepChoices(arg) :
            /\ InsertedSpaces(arg, seps, ret)
            /\ SpacedApart(arg, seps)
            /\ \A k \in 1..Len(arg) :
                    seps[k] = <<" ">> => Upto(arg, seps, k - 1) # <<>>

(***************************************************************************)
(* C8, amended: the contributions of two nodes of kind Link, Strong,       *)
(* Emphasis or CodeInline never stand in the flattened string without a    *)
(* space before the later one, and no space is inserted before the first   *)
(* node of the sequence: the flattened string begins with what the first   *)
(* node contributes.  (Before a later node a space is inserted also when   *)
(* nothing has been contributed yet.)                                      *)
(***************************************************************************)
C8_SpacedApartNoSpaceBeforeFirstNode ==
    pc = "ret" =>
        \E seps \in SepChoices(arg) :
            /\ InsertedSpaces(arg, seps, ret)
            /\ SpacedApart(arg, seps)
            /\ arg # <<>> => (seps[1] = <<>> /\ starts_with(ret, InlinePush(arg[1])))

\* a Strong, an inline code and a Strong in a row: a space before each later one
C8_Witness ==
    /\ pc = "ret"
    /\ arg = <<StrongB, CodeInline(<<"x">>), StrongB>>
    /\ ret = <<"b", " ", BACKTICK, "x", BACKTICK, " ", "b">>

(***************************************************************************)
(* SyntaxHighlighter::highlight as a call: arg is [code, lang]; the        *)
(* engine's answer to the call is chosen by the step and kept in log.      *)
(* An answer is Err, or a stream of events read off a marking of the       *)
(* codepoints of code: "src" opens a Source span, "hl" a span inside one   *)
(* highlight, "hh" a span inside two nested highlights, "cont" carries the *)
(* open span on, "gap" is a codepoint no span covers, with an error event  *)
(* in its place.  Spans come in source order and do not overlap.           *)
(***************************************************************************)
CodeChars == {"f", "n"}

HighlightCodes == SeqsOf(CodeChars, 0, MaxCode)

HighlightLangs == {
    <<>>,
    <<(<<"r","u","s","t">>)>>, <<(<<"R","U","S","T">>)>>, <<(<<"R","u","s","t">>)>>,
    <<(<<"C","+","+">>)>>,
    <<(<<"u","n","k","n","o","w","n">>)>>, <<(<<"r","u","s","t","y">>)>>,
    <<(<<>>)>> }

Marks == {"src", "hl", "hh", "cont", "gap"}

\* the codepoint at k opens a span
OpensSpan(marks, k) ==
    \/ marks[k] \in {"src", "hl", "hh"}
    \/ marks[k] = "cont" /\ (k = 1 \/ marks[k - 1] = "gap")

RECURSIVE SpanEnd(_, _)
\* the last codepoint of the span that is open at k
SpanEnd(marks, k) ==
    IF k < Len(marks) /\ marks[k + 1] = "cont" THEN SpanEnd(marks, k + 1) ELSE k

RECURSIVE EventsOf(_, _)
\* the events of the codepoints from k on
EventsOf(marks, k) ==
    IF k > Len(marks) THEN <<>>
    ELSE IF marks[k] = "gap" THEN <<EventErr>> \o EventsOf(marks, k + 1)
    ELSE IF ~OpensSpan(marks, k) THEN EventsOf(marks, k + 1)
    ELSE LET span == Source(k - 1, SpanEnd(marks, k))
         IN  (CASE marks[k] = "hl" -> <<HighlightStart(4), span, HighlightEnd>>
                [] marks[k] = "hh" ->
                     <<HighlightStart(10), HighlightStart(30), span,
                       HighlightEnd, HighlightEnd>>
                [] OTHER -> <<span>>)
             \o EventsOf(marks, k + 1)

EngineAnswers(code) ==
    {[ok |-> FALSE, events |-> <<>>]}
        \cup {[ok |-> TRUE, events |-> EventsOf(marks, 1)] :
                marks \in [1..Len(code) -> Marks]}

InitHighlight ==
    /\ arg \in {[code |-> c, lang |-> l] : c \in HighlightCodes, l \in HighlightLangs}
    /\ pc = "call"
    /\ ret = <<>>
    /\ log = <<>>
    /\ nodes = <<>>
    /\ i = 1
    /\ w = NewWriter(0)

CallHighlight ==
    /\ pc = "call"
    /\ \E engine \in EngineAnswers(arg.code) :
        /\ ret' = highlight(arg.code, arg.lang, engine)
        /\ log' = <<engine>>
    /\ pc' = "ret"
    /\ UNCHANGED <<nodes, i, w, arg>>

NextHighlight == CallHighlight

SpecHighlight == InitHighlight /\ [][NextHighlight]_vars

\* lang names a tag of the recognized set, in some letter case
Recognized(lang) ==
    /\ lang # <<>>
    /\ \E tag \in LanguageTags : SameLetters(tag, lang[1])

(***************************************************************************)
(* C9: highlight(code, language) returns code unchanged when language is   *)
(* absent, when the tag is not of the recognized set, and when the engine  *)
(* reports an error; and a tag written in another letter case (RUST, Rust, *)
(* rust) gets the same result.                                             *)
(***************************************************************************)
C9_PassThroughAndCaseBlind ==
    pc = "ret" =>
        /\ arg.lang = <<>> => ret = arg.code
        /\ ~Recognized(arg.lang) => ret = arg.code
        /\ ~log[1].ok => ret = arg.code
        /\ \A other \in HighlightLangs :
                (other # <<>> /\ arg.lang # <<>> /\ SameLetters(other[1], arg.lang[1]))
                    => highlight(arg.code, other, log[1]) = ret

\* RUST in capitals, the engine highlighting: the result carries a colour
C9_Witness ==
    /\ pc = "ret"
    /\ arg.lang = <<(<<"R","U","S","T">>)>>
    /\ log[1].ok
    /\ ret # arg.code
    /\ \E k \in 1..Len(ret) : ret[k] = Sgr("95")

(***************************************************************************)
(* C10: for every code string, every recognized tag and every event stream *)
(* of the engine (source spans, highlight starts and ends, error events),  *)
(* highlight(code, tag) without the colour directives it inserted is code: *)
(* every character once and in order; highlight("", tag) is "".            *)
(***************************************************************************)
C10_StrippedResultIsCode ==
    (pc = "ret" /\ Recognized(arg.lang)) =>
        /\ Visible(ret) = arg.code
        /\ arg.code = <<>> => ret = <<>>

\* three codepoints: a highlighted span, a codepoint no span covers behind an
\* error event at the end
C10_Witness ==
    /\ pc = "ret"
    /\ Recognized(arg.lang)
    /\ log[1].ok
    /\ Len(arg.code) = 3
    /\ log[1].events = <<HighlightStart(4), Source(0, 2), HighlightEnd, EventErr>>
    /\ Len(ret) = 5

(***************************************************************************)
(* Documents of one or two nodes of the dispatcher's own arms: links,      *)
(* images, headings, list items, callouts and texts, on a terminal whose   *)
(* image crates answer in each of the three ways.                          *)
(***************************************************************************)
LinkSamples == {
    Link(<<Text(<<"a">>)>>, <<"u">>),
    Link(<<>>, <<"u">>),
    Link(<<Text(<<" ">>)>>, <<"u", "/", "v">>),
    Link(<<Text(<<" ", "a">>)>>, <<"u">>),
    Link(<<Text(<<"a">>), Strong(<<Text(<<"b">>)>>)>>, <<"u">>),
    Link(<<Break>>, <<>>) }

ImageSamples == {
    Image(<<"a">>, <<"i", ".", "p", "n", "g">>),
    Image(<<>>, <<"i", ".", "p", "n", "g">>),
    Image(<<" ">>, <<"n", ".", "p", "n", "g">>),
    Image(<<"a">>, <<"h","t","t","p",":","/","/","i">>),
    Image(<<"a">>, <<"h","t","t","p","s",":","/","/","i">>) }

HeadingSamples ==
    {Heading(d, vs) : d \in 1..6,
                      vs \in {<<>>, <<Text(<<"a", "b">>)>>,
                              <<Text(<<"a">>), Strong(<<Text(<<"b">>)>>)>>}}

ListSamples ==
    {List(o, 0, c, vs) : o \in BOOLEAN, c \in {"true", "false", "none"},
                         vs \in {<<>>, <<Fragment(<<Text(<<"D", "o">>)>>)>>,
                                 <<Text(<<"D", "o">>)>>}}
    \cup {List(FALSE, 0, "true", <<Fragment(<<Text(<<"D">>)>>),
                                   List(FALSE, 0, "false", <<Text(<<"T">>)>>)>>)}

\* children of a callout behind its marker: a paragraph, a list of one line
\* and one of two, a code block, a nested quote, headings
PanelKids == {
    Fragment(<<TextA>>),
    List(FALSE, 0, "none", <<ItemA>>),
    List(FALSE, 0, "none", <<ItemA, List(FALSE, 0, "none", <<ItemA>>)>>),
    Code(<<"x">>, <<>>),
    Blockquote(<<TextA>>),
    Heading(1, <<TextA>>),
    Heading(3, <<TextA>>) }

\* callouts whose marker is in the first child, a paragraph
PanelSamples ==
    {Blockquote(<<Fragment(<<NoteText>>)>> \o kids) : kids \in SeqsOf(PanelKids, 1, 2)}

NodeSamples ==
    LinkSamples \cup ImageSamples \cup HeadingSamples \cup ListSamples
        \cup PanelSamples

\* nodes that go through the highlighter: code of a known language (as
\* written and in upper case), of an unknown one, of none, empty code, markup
CodeSamples == {
    Code(<<"x">>, <<(<<"r", "u", "s", "t">>)>>),
    Code(<<"f", "n">>, <<(<<"R", "S">>)>>),
    Code(<<"x">>, <<(<<"z">>)>>),
    Code(<<"x">>, <<>>),
    Code(<<>>, <<(<<"r", "u", "s", "t">>)>>),
    Html(<<"b">>) }

NodeDocs == {<<n>> : n \in NodeSamples}
              \cup {<<n, Text(<<"h", "i">>)>> : n \in NodeSamples}
              \cup {<<a, b>> : a \in CodeSamples, b \in CodeSamples}

ViuerAnswers == {"shown", "open_err", "print_err"}

InitNode ==
    /\ nodes \in NodeDocs
    /\ i = 1
    /\ w \in {[NewWriter(0) EXCEPT !.viuer = a] : a \in ViuerAnswers}
    /\ pc = "walk"
    /\ log = <<>>
    /\ arg = <<>>
    /\ ret = <<>>

NextNode == WalkNode \/ WalkReturn

SpecNode == InitNode /\ [][NextNode]_vars

\* s without its SGR directives (the OSC 8 sequences stay)
Unstyled(s) == SelectSeq(s, LAMBDA tok : ~IsSgr(tok))

\* every codepoint of s is a space, a tab or a newline
Blank(s) == \A k \in 1..Len(s) : s[k] \in {" ", "\t", "\n"}

\* the OSC 8 hyperlink of url around display, closed by the string terminator
Hyperlink(url, display) ==
    <<ESC, "]", "8", ";", ";">> \o url \o <<ESC, "\\">> \o display
        \o <<ESC, "]", "8", ";", ";", ESC, "\\">>

\* the text a link shows: its flattened children, the url when that is blank
LinkDisplay(link) ==
    IF Blank(render_inline_content(link.values))
    THEN link.url
    ELSE render_inline_content(link.values)

(***************************************************************************)
(* C11: rendering a Link emits the link glyph followed by                  *)
(* ESC ] 8 ; ; url ESC \ display ESC ] 8 ; ; ESC \, display being the      *)
(* flattened child text, or the url when that text is empty or only        *)
(* whitespace; the underline style is applied only when there is display   *)
(* text.  The same sequence is what the flattener and the callout body     *)
(* make of a Link.                                                         *)
(***************************************************************************)
C11_LinkIsGlyphThenHyperlink ==
    (i = 2 /\ nodes[1].kind = "Link") =>
        LET link == nodes[1]
            seq == Hyperlink(link.url, LinkDisplay(link))
        IN  /\ Unstyled(w.out) = <<" ", LINK_GLYPH, " ">> \o seq
            /\ (\E k \in 1..Len(w.out) : w.out[k] \in {Sgr("4"), Sgr("4;94")})
                    <=> ~Blank(render_inline_content(link.values))
            /\ render_inline_content(<<link>>) = <<LINK_GLYPH, " ">> \o seq
            /\ CalloutLine(<<link>>, 1, TRUE, <<>>).line = <<" ", LINK_GLYPH, " ">> \o seq

\* a link whose only text is a space: the url is shown, twice in the output
C11_Witness ==
    /\ i = 2
    /\ nodes[1] = Link(<<Text(<<" ">>)>>, <<"u", "/", "v">>)
    /\ Unstyled(w.out) =
            <<" ", LINK_GLYPH, " ", ESC, "]", "8", ";", ";", "u", "/", "v", ESC, "\\",
              "u", "/", "v", ESC, "]", "8", ";", ";", ESC, "\\">>

\* url names a remote resource: it starts with http:// or https://
Remote(url) ==
    \/ Len(url) >= 7 /\ SubSeq(url, 1, 7) = <<"h","t","t","p",":","/","/">>
    \/ Len(url) >= 8 /\ SubSeq(url, 1, 8) = <<"h","t","t","p","s",":","/","/">>

\* the fallback line of an image as a terminal shows it
FallbackLine(image) ==
    IF Blank(image.alt)
    THEN IMAGE_GLYPH \o <<" ">> \o image.url
    ELSE IMAGE_GLYPH \o <<" ">> \o image.alt \o <<" ", "(">> \o image.url \o <<")">>

(***************************************************************************)
(* C12: rendering an Image never fails because of the display attempt:     *)
(* whether the image crates show the image, fail to open it or fail to     *)
(* print it, the fallback line (the alt text with the url, the url alone   *)
(* when the alt is empty) is written and the walk goes on to the next node *)
(* and returns Ok; and a display is attempted neither for a url that       *)
(* starts with http:// or https:// nor for a path that does not exist.     *)
(***************************************************************************)
C12_ImageFallbackWhateverDisplayDoes ==
    /\ pc # "Err" /\ ~w.err
    /\ \A e \in 1..Len(w.display) :
            /\ ~Remote(w.display[e].path)
            /\ w.display[e].path \in ExistingPaths
    /\ (i >= 2 /\ nodes[1].kind = "Image") =>
            /\ VisibleLineSeq(w.out)[1] = FallbackLine(nodes[1])
            /\ w.n >= 1
            /\ Len(w.display) <= 1
            /\ (Len(w.display) = 1) =
                    (~Remote(nodes[1].url) /\ nodes[1].url \in ExistingPaths)
    /\ (pc = "Ok" /\ nodes[1].kind = "Image" /\ Len(nodes) = 2) =>
            /\ Len(log) = 2
            /\ VisibleLineSeq(w.out)[2] = nodes[2].value

\* an image file that exists and that the crates fail to open: the fallback
\* line and the text behind it are written, the walk returns Ok
C12_Witness ==
    /\ pc = "Ok"
    /\ nodes = <<Image(<<"a">>, <<"i", ".", "p", "n", "g">>), Text(<<"h", "i">>)>>
    /\ w.viuer = "open_err"
    /\ w.display = <<[path |-> <<"i", ".", "p", "n", "g">>, result |-> "open_err"]>>
    /\ VisibleLineSeq(w.out)[2] = <<"h", "i">>

\* a line made of rule glyphs only
RuleLine(l) == l # <<>> /\ \A k \in 1..Len(l) : l[k] \in {BOX_DH, BOX_H}

\* the places of the rule lines among lines
RuleLines(lines) == {k \in 1..Len(lines) : RuleLine(lines[k])}

\* the title line of heading: its symbol, a space, its flattened text
TitleLine(heading) ==
    <<HEADER_SYMBOLS[heading.depth], " ">> \o render_inline_content(heading.values)

\* the places of the title line of heading among lines
TitleLines(heading, lines) == {k \in 1..Len(lines) : lines[k] = TitleLine(heading)}

\* every rule line is as wide as the flattened text and a padding of 4
RulesPadded(heading, lines) ==
    \A r \in RuleLines(lines) :
        Len(lines[r]) = Len(render_inline_content(heading.values)) + 4

(***************************************************************************)
(* C13, as stated: rendering a Heading emits its flattened text; a depth-1 *)
(* heading and a depth-2 heading each have a rule line before and a rule   *)
(* line after the text line, of the width of the flattened text plus 4;    *)
(* depths 3 to 6 emit no rule line.                                        *)
(***************************************************************************)
C13_RuleLinesAroundDepth1And2 ==
    (i = 2 /\ nodes[1].kind = "Heading") =>
        LET lines == VisibleLineSeq(w.out)
        IN  /\ Cardinality(TitleLines(nodes[1], lines)) = 1
            /\ RulesPadded(nodes[1], lines)
            /\ \A t \in TitleLines(nodes[1], lines) :
                    RuleLines(lines) = IF nodes[1].depth \in {1, 2}
                                       THEN {t - 1, t + 1} ELSE {}

(***************************************************************************)
(* C13, amended: rendering a Heading emits its flattened text; a depth-1   *)
(* heading has a rule line before and a rule line after the text line, a   *)
(* depth-2 heading a rule line after the text line only; the width of a    *)
(* rule line is the codepoint count of the flattened text plus 4; depths 3 *)
(* to 6 emit no rule line.                                                 *)
(***************************************************************************)
C13_RuleLinesAroundDepth1BelowDepth2 ==
    (i = 2 /\ nodes[1].kind = "Heading") =>
        LET lines == VisibleLineSeq(w.out)
        IN  /\ Cardinality(TitleLines(nodes[1], lines)) = 1
            /\ RulesPadded(nodes[1], lines)
            /\ \A t \in TitleLines(nodes[1], lines) :
                    RuleLines(lines) = CASE nodes[1].depth = 1 -> {t - 1, t + 1}
                                         [] nodes[1].depth = 2 -> {t + 1}
                                         [] OTHER -> {}

\* a depth-2 heading of a text and a strong: the text line, then one rule
\* line of 3 + 4 glyphs
C13_Witness ==
    /\ i = 2
    /\ nodes[1] = Heading(2, <<Text(<<"a">>), Strong(<<Text(<<"b">>)>>)>>)
    /\ VisibleLineSeq(w.out)[2] = <<"U+2461", " ", "a", " ", "b">>
    /\ VisibleLineSeq(w.out)[3] = repeat(BOX_H, 7)

\* the text a list item begins with: that of its first child, a Text or a
\* Fragment of one Text; nothing for an item without such a child
ItemText(list) ==
    IF list.values = <<>> THEN <<>>
    ELSE CASE list.values[1].kind = "Text" -> list.values[1].value
           [] list.values[1].kind = "Fragment" -> list.values[1].values[1].value
           [] OTHER -> <<>>

\* the line of a list item at depth: indent, bullet, a space, the glyphs of
\* boxes for its checked state, its text
ItemLine(list, depth, boxes) ==
    repeat(" ", 2 * depth) \o ListBullet(list, depth) \o <<" ">>
        \o boxes[list.checked] \o ItemText(list)

\* the lists of the first node: the node itself and a list among its children
ItemsOf(list) ==
    <<[list |-> list, depth |-> 0]>>
        \o [k \in 1..Cardinality({j \in 1..Len(list.values) : list.values[j].kind = "List"})
                |-> [list |-> list.values[Len(list.values)], depth |-> 1]]

\* line k of the output is the line of the k-th list item, with boxes
ItemLinesShow(boxes) ==
    (i = 2 /\ nodes[1].kind = "List") =>
        \A k \in 1..Len(ItemsOf(nodes[1])) :
            VisibleLineSeq(w.out)[k]
                = ItemLine(ItemsOf(nodes[1])[k].list, ItemsOf(nodes[1])[k].depth, boxes)

(***************************************************************************)
(* C14, as stated: for every list item the checkbox glyph is written after *)
(* the bullet and before the item content: U+2611 followed by one space    *)
(* when checked is true, U+2610 followed by one space when checked is      *)
(* false, nothing when checked is absent.                                  *)
(***************************************************************************)
C14_CheckboxThenSpaceThenContent ==
    ItemLinesShow([true |-> <<"U+2611", " ">>, false |-> <<"U+2610", " ">>,
                   none |-> <<>>])

(***************************************************************************)
(* C14, amended: for every list item the checkbox glyph is written after   *)
(* the bullet and before the item content: U+2611 with the emoji variation *)
(* selector U+FE0F, followed by one space, when checked is true; U+2610    *)
(* followed by one space when checked is false; nothing when checked is    *)
(* absent.                                                                 *)
(***************************************************************************)
C14_CheckboxWithSelectorThenSpaceThenContent ==
    ItemLinesShow([true |-> <<"U+2611", "U+FE0F", " ">>, false |-> <<"U+2610", " ">>,
                   none |-> <<>>])

\* a checked item with an unchecked item nested in it
C14_Witness ==
    /\ i = 2
    /\ nodes[1] = List(FALSE, 0, "true", <<Fragment(<<Text(<<"D">>)>>),
                                           List(FALSE, 0, "false", <<Text(<<"T">>)>>)>>)
    /\ VisibleLineSeq(w.out)[1] = <<"U+25CF", " ", "U+2611", "U+FE0F", " ", "D">>
    /\ VisibleLineSeq(w.out)[2] = <<" ", " ", "U+25CB", " ", "U+2610", " ", "T">>

\* the nodes from place k to place k + len - 1 are the longest stretch of
\* table nodes that starts at k
MaximalRun(k, len) ==
    /\ \A j \in k..(k + len - 1) : j <= Len(nodes) /\ IsTableNode(nodes[j])
    /\ (k + len <= Len(nodes)) => ~IsTableNode(nodes[k + len])

\* the log covers the nodes before the index once each and in order
HandledOnceInOrder ==
    /\ i \in 1..(Len(nodes) + 1)
    /\ (log = <<>>) = (i = 1)
    /\ log # <<>> => (log[1].at = 1 /\ i = log[Len(log)].at + log[Len(log)].len)
    /\ \A e \in 1..Len(log) :
        /\ log[e].len >= 1
        /\ e < Len(log) => log[e + 1].at = log[e].at + log[e].len
        /\ log[e].to = "render_table" =>
                (nodes[log[e].at].kind = "TableCell" /\ MaximalRun(log[e].at, log[e].len))
        /\ log[e].to = "render_node" =>
                (nodes[log[e].at].kind # "TableCell" /\ log[e].len = 1)

(***************************************************************************)
(* C15: the walk of render_markdown terminates on every document and       *)
(* handles every top-level node exactly once, in document order: the index *)
(* grows with every iteration and never passes the end of the document by  *)
(* more than one, where the loop returns; a run handed to the table engine *)
(* from a TableCell is the longest stretch of TableCell, TableHeader and   *)
(* TableRow nodes from that index, and the next node handled is the first  *)
(* behind the run.                                                         *)
(***************************************************************************)
C15_WalkHandlesEachNodeOnceAndEnds ==
    /\ []HandledOnceInOrder
    /\ [][/\ pc' = "walk" => (i' > i /\ Len(log') = Len(log) + 1)
          /\ pc' # "walk" => (i = Len(nodes) + 1 /\ pc' = "Ok" /\ log' = log)]_vars

\* a run of a cell, a header and a row went to the table engine as one
C15_Witness ==
    /\ pc = "Ok"
    /\ Len(nodes) = 3
    /\ nodes[1].kind = "TableCell" /\ nodes[2].kind = "TableHeader"
    /\ nodes[3].kind = "TableRow"
    /\ Len(log) = 1 /\ log[1].len = 3

(***************************************************************************)
(* A rendered table run read back: the lines of the output without the     *)
(* colour directives, by the glyph a line begins with.                     *)
(***************************************************************************)
\* the stretches of the output from a glyph left to the next glyph right
Stretches(left, right) ==
    LET s == Unstyled(w.out)
    IN  {SubSeq(s, k, CHOOSE e \in k..Len(s) :
                        s[e] = right /\ \A j \in k..(e - 1) : s[j] # right) :
            k \in {j \in 1..Len(s) : s[j] = left /\ \E e \in j..Len(s) : s[e] = right}}

\* one table run was rendered and the walk returned
OneRunRendered == pc = "Ok" /\ Len(log) = 1 /\ log[1].to = "render_table"

\* the places of the TableHeader nodes of run
HeadersOf(run) == {k \in 1..Len(run) : run[k].kind = "TableHeader"}

\* the columns a border of run spans: those of the first TableHeader, else
\* those of the width vector
Columns(run, widths) ==
    IF HeadersOf(run) = {} THEN Len(widths)
    ELSE Len(run[CHOOSE k \in HeadersOf(run) : \A j \in HeadersOf(run) : k <= j].align)

\* the width of column c (from 1): the vector's, 4 for a column it does not have
ColumnWidth(widths, c) == IF c <= Len(widths) THEN widths[c] ELSE 4

RECURSIVE Ruled(_, _, _, _)
\* segments of rule glyphs of the widths segs[c..], a joint between neighbours
Ruled(segs, c, joint, fill) ==
    IF c > Len(segs) THEN <<>>
    ELSE repeat(fill, segs[c]) \o (IF c < Len(segs) THEN <<joint>> ELSE <<>>)
            \o Ruled(segs, c + 1, joint, fill)

\* a border line of the corners left and right over the segments segs
BorderLine(left, joint, right, segs) ==
    <<left>> \o Ruled(segs, 1, joint, BOX_H) \o <<right>>

(***************************************************************************)
(* C16: the top and the bottom border of a table run have as many column   *)
(* segments as the first TableHeader of the run has alignments, or, in a   *)
(* run without a TableHeader, as the width vector has columns; both have   *)
(* the same segments, each as wide as its column's width plus 2 (a column  *)
(* the width vector does not have counts as 4 wide).                       *)
(***************************************************************************)
C16_BorderSegmentsAreColumnCount ==
    OneRunRendered =>
        LET segs == [c \in 1..Columns(RunOf(1), log[1].widths)
                        |-> ColumnWidth(log[1].widths, c) + 2]
        IN  /\ Stretches(BOX_TL, BOX_TR) = {BorderLine(BOX_TL, BOX_TT, BOX_TR, segs)}
            /\ Stretches(BOX_BL, BOX_BR) = {BorderLine(BOX_BL, BOX_BT, BOX_BR, segs)}

\* a run of two columns whose header declares one: borders of one segment
C16_Witness ==
    /\ OneRunRendered
    /\ Len(log[1].widths) = 2
    /\ \E k \in 1..Len(nodes) : nodes[k] = TableHeader(<<"Center">>)
    /\ \A k \in 1..Len(nodes) : nodes[k].kind = "TableHeader" => Len(nodes[k].align) = 1
    /\ \E b \in Stretches(BOX_TL, BOX_TR) : Len(b) = log[1].widths[1] + 4

\* s without the codepoints of the set drop
Without(s, drop) == SelectSeq(s, LAMBDA c : c \notin drop)

\* the text of a cell: its flattened children, spaces left out
CellText(cell) == Without(render_inline_content(cell.values), {" "})

RECURSIVE CellTexts(_, _)
\* the texts of the cells of ns from place k on, in document order, those of
\* a TableRow's cells at the place of the row
CellTexts(ns, k) ==
    IF k > Len(ns) THEN <<>>
    ELSE (CASE ns[k].kind = "TableCell" -> CellText(ns[k])
            [] ns[k].kind = "TableRow" -> CellTexts(ns[k].values, 1)
            [] OTHER -> <<>>)
         \o CellTexts(ns, k + 1)

\* the glyphs of the frame of a table: bars, the header separator, blanks
FrameGlyphs == {" ", NL, BOX_V, BOX_H, BOX_LT, BOX_RT, BOX_X, ":"}

\* the places of glyph in s
Places(s, glyph) == {k \in 1..Len(s) : s[k] = glyph}

(***************************************************************************)
(* C17: for every non-empty table run, with or without a TableHeader, the  *)
(* top border is emitted exactly once, before any cell; every cell of the  *)
(* run, flat or inside a TableRow, is emitted, in document order; the      *)
(* bottom border is emitted exactly once, after the last cell; and a run   *)
(* without a TableHeader has no header-separator row.                      *)
(***************************************************************************)
C17_BordersOnceAroundAllCells ==
    OneRunRendered =>
        LET s == Unstyled(w.out)
        IN  /\ Cardinality(Places(s, BOX_TL)) = 1 /\ Cardinality(Places(s, BOX_TR)) = 1
            /\ Cardinality(Places(s, BOX_BL)) = 1 /\ Cardinality(Places(s, BOX_BR)) = 1
            /\ \A a \in Places(s, BOX_TL), b \in Places(s, BOX_TR),
                  c \in Places(s, BOX_BL), d \in Places(s, BOX_BR) :
                    /\ a < b /\ b < c /\ c < d
                    /\ Without(SubSeq(s, 1, a - 1), FrameGlyphs) = <<>>
                    /\ Without(SubSeq(s, b + 1, c - 1), FrameGlyphs)
                            = CellTexts(RunOf(1), 1)
                    /\ Without(SubSeq(s, d + 1, Len(s)), FrameGlyphs) = <<>>
            /\ HeadersOf(RunOf(1)) = {} =>
                    Places(s, BOX_LT) \cup Places(s, BOX_RT) \cup Places(s, BOX_X) = {}

\* a run without a header: a flat cell, then a row of a link and a text
C17_Witness ==
    /\ OneRunRendered
    /\ Len(nodes) = 2
    /\ nodes[1] = TableCell(<<Text(<<"a", "b">>)>>, 0, 0, FALSE)
    /\ nodes[2].kind = "TableRow" /\ Len(nodes[2].values) = 2
    /\ Len(CellTexts(nodes, 1)) > 8

\* the part of the output between the top border and the bottom border
TableBody ==
    LET s == Unstyled(w.out)
    IN  SubSeq(s, (CHOOSE k \in Places(s, BOX_TR) : TRUE) + 2,
                  (CHOOSE k \in Places(s, BOX_BL) : TRUE) - 1)

\* the lines of the body that show cells: not empty and not a header separator
RowLines ==
    {l \in {Lines(TableBody)[k] : k \in 1..Len(Lines(TableBody))} :
        l # <<>> /\ l[1] # BOX_LT}

\* the flat cell at place k of run opens a row: it is the first cell of the
\* run, or the flat cell before it closed its row
OpensRow(run, k) ==
    LET before == {j \in 1..(k - 1) : run[j].kind = "TableCell"}
    IN  \/ before = {}
        \/ run[CHOOSE j \in before : \A m \in before : m <= j].last_cell_in_row

RECURSIVE CellCount(_, _)
\* the cells of ns from place k on, those inside a TableRow included
CellCount(ns, k) ==
    IF k > Len(ns) THEN 0
    ELSE (CASE ns[k].kind = "TableCell" -> 1
            [] ns[k].kind = "TableRow" -> CellCount(ns[k].values, 1)
            [] OTHER -> 0)
         + CellCount(ns, k + 1)

(***************************************************************************)
(* C18: in table emission, for every sequence of TableCell, TableHeader    *)
(* and TableRow nodes in a run, each output row begins with exactly one    *)
(* row opener, a bar and a space: the opener is written before a flat cell *)
(* exactly when the cell is the first cell of the run or the flat cell     *)
(* before it had last_cell_in_row set (and once for a TableRow), never in  *)
(* the middle of a row and never twice for a row.  Every cell being closed *)
(* by one bar, the bars of the output are as many as the cells and the     *)
(* openers together.                                                       *)
(***************************************************************************)
C18_OneOpenerPerRow ==
    OneRunRendered =>
        LET run == RunOf(1)
            openers == Cardinality({k \in 1..Len(run) :
                            \/ run[k].kind = "TableCell" /\ OpensRow(run, k)
                            \/ run[k].kind = "TableRow"})
        IN  /\ \A l \in RowLines : Len(l) >= 2 /\ l[1] = BOX_V /\ l[2] = " "
            /\ Cardinality(Places(Unstyled(w.out), BOX_V)) = CellCount(run, 1) + openers

\* the k-th smallest element of a set of numbers
Nth(S, n) == CHOOSE x \in S : Cardinality({y \in S : y < x}) = n - 1

(***************************************************************************)
(* C19: in a table run every TableHeader node produces exactly one         *)
(* header-separator row, placed after the row that precedes the            *)
(* TableHeader in the run and before the row that follows it, whether the  *)
(* neighbouring rows are flat cells or TableRow nodes: the separators are  *)
(* as many as the TableHeader nodes, and before the n-th separator stand   *)
(* the cells of the nodes before the n-th TableHeader, behind it the rest. *)
(***************************************************************************)
C19_OneSeparatorPerHeader ==
    OneRunRendered =>
        LET run == RunOf(1)
            s == Unstyled(w.out)
            top == CHOOSE k \in Places(s, BOX_TR) : TRUE
        IN  /\ Cardinality(Places(s, BOX_LT)) = Cardinality(HeadersOf(run))
            /\ Cardinality(Places(s, BOX_RT)) = Cardinality(HeadersOf(run))
            /\ \A n \in 1..Cardinality(HeadersOf(run)) :
                    Without(SubSeq(s, top + 1, Nth(Places(s, BOX_LT), n) - 1),
                            FrameGlyphs)
                        = CellTexts(SubSeq(run, 1, Nth(HeadersOf(run), n) - 1), 1)

\* the glyphs that bound a column in a line of a table
ColumnBounds == {BOX_V, BOX_TL, BOX_TT, BOX_TR, BOX_BL, BOX_BT, BOX_BR,
                 BOX_LT, BOX_X, BOX_RT}

\* the columns a line spans and the offset of its last bound
Span(line) ==
    [columns |-> Cardinality(Offsets(line, ColumnBounds)) - 1,
     width |-> SetMax(Offsets(line, ColumnBounds))]

(***************************************************************************)
(* C20: in a rendered table run every body row, the header-separator row   *)
(* and the top and bottom borders span the same number of columns and the  *)
(* same total width, also when the run has cells whose column index is at  *)
(* or beyond the header's alignment count and when a TableHeader declares  *)
(* more columns than any row has cells.                                    *)
(***************************************************************************)
C20_AllLinesSpanTheSame ==
    OneRunRendered =>
        \A l1, l2 \in {l \in VisibleLines(w.out) : l # <<>>} : Span(l1) = Span(l2)


(***************************************************************************)
(* Callout bodies, on the blockquotes of SpecQuote.                        *)
(***************************************************************************)
\* sub occurs in s as a contiguous run
Occurs(sub, s) ==
    \E a \in 0..(Len(s) - Len(sub)) : SubSeq(s, a + 1, a + Len(sub)) = sub

\* the child holds a valid marker: a direct Text, or a Fragment with such a Text
HoldsMarker(child) ==
    \/ child.kind = "Text" /\ ValidMarker(child.value)
    \/ /\ child.kind = "Fragment"
       /\ \E j \in 1..Len(child.values) :
            child.values[j].kind = "Text" /\ ValidMarker(child.values[j].value)

\* the place of the first direct child that holds the marker
MarkerChild(values) ==
    CHOOSE k \in 1..Len(values) :
        HoldsMarker(values[k]) /\ \A j \in 1..(k - 1) : ~HoldsMarker(values[j])

\* what a direct child behind the marker is to put into the panel: the bar,
\* a space, and its rendering (a paragraph as its one line, nothing when blank)
BodyOf(child) ==
    IF child.kind = "Fragment"
    THEN LET line == CalloutLine(child.values, 1, TRUE, <<>>).line
         IN  IF trim(line) = <<>> THEN <<>> ELSE <<BOX_V, " ">> \o line \o <<NL>>
    ELSE <<BOX_V, " ">> \o render_node_inline(child, 0, FALSE, NewWriter(0)).out

\* values without the children before the m-th that are neither Text nor Fragment
WithoutIgnored(values, m) ==
    SelectSeq([k \in 1..Len(values) |-> [at |-> k, node |-> values[k]]],
              LAMBDA e : e.at >= m \/ e.node.kind \in {"Text", "Fragment"})

(***************************************************************************)
(* C21: in a callout blockquote, whether the marker is in a Text child of  *)
(* a Fragment or in a direct Text child, every direct child after the      *)
(* child that holds the marker is rendered into the output behind the body *)
(* prefix "│ ", and the children before the marker that are neither Text   *)
(* nor Fragment are ignored: the output is that of the blockquote without  *)
(* them.                                                                   *)
(***************************************************************************)
C21_ChildrenAfterMarkerInBody ==
    (i = 2 /\ QuoteIsCallout(nodes[1].values)) =>
        LET values == nodes[1].values
            m == MarkerChild(values)
            kept == WithoutIgnored(values, m)
        IN  /\ \A k \in (m + 1)..Len(values) : Occurs(BodyOf(values[k]), w.out)
            /\ w.out = render_node(Blockquote([k \in 1..Len(kept) |-> kept[k].node]),
                                   0, NewWriter(0)).out


\* how many of the visible lines of out are line
LineCount(out, line) ==
    Cardinality({k \in 1..Len(VisibleLineSeq(out)) : VisibleLineSeq(out)[k] = line})

(***************************************************************************)
(* C22: in a rendered callout whose marker has text behind its closing     *)
(* bracket, that text is the first body line of the panel, right below the *)
(* top line, and it is emitted once: the line "│ text" stands in the       *)
(* output once, and once more only for each child after the marker whose   *)
(* own body is this very line.                                             *)
(***************************************************************************)
C22_TextAfterMarkerOnce ==
    (i = 2 /\ QuoteIsCallout(nodes[1].values)) =>
        LET values == nodes[1].values
            c == FindCallout(values, 1)
            m == MarkerChild(values)
            first == <<BOX_V, " ">> \o c.text
            lines == VisibleLineSeq(w.out)
        IN  c.text # <<>> =>
              /\ \E t \in 1..(Len(lines) - 1) :
                    /\ lines[t] = PanelTop(CALLOUTS[c.info])
                    /\ lines[t + 1] = first
              /\ LineCount(w.out, first) =
                    1 + Cardinality({k \in (m + 1)..Len(values) :
                                        Visible(BodyOf(values[k])) = first \o <<NL>>})


(***************************************************************************)
(* C23: in a rendered callout, every non-empty line written between the    *)
(* top line "┌─ icon Name" and the closing line "└─" starts with "│ ",     *)
(* whatever the children behind the marker are (Fragment, List, Code,      *)
(* nested Blockquote, Heading) and however many lines each renders to.     *)
(***************************************************************************)
C23_BodyLinesPrefixed ==
    (i >= 2 /\ nodes[1].kind = "Blockquote" /\ QuoteIsCallout(nodes[1].values)) =>
        LET panel == render_node(nodes[1], 0, NewWriter(0)).out
            lines == VisibleLineSeq(panel)
            tops == {k \in 1..Len(lines) : starts_with(lines[k], <<BOX_TL, BOX_H>>)}
            closes == {k \in 1..Len(lines) : contains(lines[k], BOX_BL)}
        IN  /\ IsPrefix(panel, w.out)
            /\ \A k \in 1..Len(lines) :
                  (/\ lines[k] # <<>>
                   /\ \E t \in tops : t < k
                   /\ \E c \in closes : k < c)
                      => starts_with(lines[k], <<BOX_V, " ">>)


\* what the k-th node of a flattened sequence is to contribute, by its kind
Contribution(node) ==
    CASE node.kind = "Text" -> node.value
      [] node.kind = "CodeInline" -> <<BACKTICK>> \o node.value \o <<BACKTICK>>
      [] node.kind \in {"Strong", "Emphasis"} -> render_inline_content(node.values)
      [] node.kind = "Link" ->
            <<LINK_GLYPH, " ">> \o Hyperlink(node.url, LinkDisplay(node))
      [] OTHER -> <<>>

RECURSIVE Joined(_, _, _)
\* the contributions of the first k nodes in order, seps[j] before the j-th
Joined(ns, seps, k) ==
    IF k = 0 THEN <<>>
    ELSE Joined(ns, seps, k - 1) \o seps[k] \o Contribution(ns[k])

(***************************************************************************)
(* C24: the flattened string is the in-order concatenation of what each    *)
(* node contributes - a Text its raw value, a CodeInline its value between *)
(* backticks, a Strong or Emphasis the flattening of its children without  *)
(* a style marker, a Link the link glyph and the hyperlink sequence, every *)
(* other kind nothing - and the only other characters are single spaces    *)
(* that stand before a Link, Strong, Emphasis or CodeInline.               *)
(***************************************************************************)
C24_FlattenIsContributionsInOrder ==
    pc = "ret" =>
        \E seps \in SepChoices(arg) :
            /\ ret = Joined(arg, seps, Len(arg))
            /\ \A k \in 1..Len(arg) :
                    seps[k] = <<" ">> => arg[k].kind \in SpacedKinds

\* a Text, an Image that gives nothing, an Emphasis around an inline code and
\* a Strong: the text, a space, the code in backticks, a space, the Strong's text
C24_Witness ==
    /\ pc = "ret"
    /\ arg = <<TextA, Image(<<"a">>, <<"u">>), Emphasis(<<CodeInline(<<"x">>), StrongB>>)>>
    /\ ret = <<"a", " ", BACKTICK, "x", BACKTICK, " ", "b">>


(***************************************************************************)
(* render_node_inline as a call: arg is the node, the depth and the inline *)
(* flag, w the sink it writes to, in a build with overflow checks and in   *)
(* one without; ret is how the call ended.                                 *)
(***************************************************************************)
TextSamples ==
    {Text(v) : v \in {<<>>, <<" ">>, <<"\t", "\n">>, <<"a">>, <<" ", "a", " ">>,
                      <<"a", "\n">>, <<"a", " ", "b">>}}

\* what an item holds before its nested list: a paragraph, a text, nothing,
\* a blank text, a paragraph of a blank text, an empty paragraph
ItemHeads == {<<ItemA>>, <<TextA>>, <<>>, <<Text(<<" ">>)>>,
              <<Fragment(<<Text(<<" ">>)>>)>>, <<Fragment(<<>>)>>}

RECURSIVE NestedList(_, _, _)
\* a list item with k lists nested inside one another, head in each of them
NestedList(k, ordered, head) ==
    IF k = 0 THEN List(ordered, 0, "none", head)
    ELSE List(ordered, k, "none", head \o <<NestedList(k - 1, ordered, head)>>)

ListChains ==
    {NestedList(k, o, head) : k \in 0..MaxNest, o \in BOOLEAN, head \in ItemHeads}
        \cup {List(TRUE, 9, "none", <<ItemA>>)}

\* table nodes outside a table run: cells that end their row and cells that
\* do not, at column 0 and at a later one, headers and rows
LoneTableNodes == {
    TableCell(<<TextA>>, 0, 0, TRUE),
    TableCell(<<TextAb>>, 2, 0, FALSE),
    TableCell(<<TextA, StrongB>>, 1, 0, TRUE),
    TableCell(<<>>, 0, 0, FALSE),
    TableHeader(<<"None">>),
    TableHeader(<<"Left", "Right">>),
    TableRow(<<TableCell(<<TextA>>, 0, 1, TRUE)>>),
    TableRow(<<>>) }

\* headings of every depth a u8 holds that the renderer tells apart: 0, the
\* six of Markdown, 7 and the largest
DeepHeadings ==
    {Heading(d, vs) : d \in 0..7 \cup {255}, vs \in {<<>>, <<TextA>>}}

DispatchNodes == TextSamples \cup ListChains \cup LoneTableNodes \cup DeepHeadings

DispatchArgs ==
    {[node |-> n, depth |-> d, inline |-> b] :
        n \in DispatchNodes, d \in 0..MaxDepth, b \in BOOLEAN}

InitDispatch ==
    /\ arg \in DispatchArgs
    /\ w \in {[NewWriter(0) EXCEPT !.checks = c] : c \in BOOLEAN}
    /\ pc = "call"
    /\ ret = <<>>
    /\ nodes = <<>>
    /\ i = 1
    /\ log = <<>>

CallRenderNodeInline ==
    /\ pc = "call"
    /\ \E w1 \in {render_node_inline(arg.node, arg.depth, arg.inline, w)} :
           /\ w' = w1
           /\ ret' = IF w1.panic THEN "Panic" ELSE IF w1.err THEN "Err" ELSE "Ok"
    /\ pc' = "ret"
    /\ UNCHANGED <<nodes, i, log, arg>>

NextDispatch == CallRenderNodeInline

SpecDispatch == InitDispatch /\ [][NextDispatch]_vars

(***************************************************************************)
(* C25: rendering a Text node whose value is empty or only whitespace      *)
(* writes nothing to the sink; rendering any other Text node writes its    *)
(* value verbatim, followed by a newline if and only if the call is not in *)
(* inline mode.                                                            *)
(***************************************************************************)
C25_TextVerbatimNewlineUnlessInline ==
    (pc = "ret" /\ arg.node.kind = "Text") =>
        /\ ret = "Ok"
        /\ Blank(arg.node.value) => (w.out = <<>> /\ w.n = 0)
        /\ ~Blank(arg.node.value) =>
                w.out = arg.node.value \o (IF arg.inline THEN <<>> ELSE <<NL>>)

\* " a " rendered inline: the value with its spaces and no newline
C25_Witness ==
    /\ pc = "ret"
    /\ arg.node = Text(<<" ", "a", " ">>)
    /\ arg.inline
    /\ w.out = <<" ", "a", " ">>


\* what a list item rendered at depth d begins with: 2d spaces, the bullet in
\* its colour (the start index plus one and a dot for an ordered list, entry
\* d mod 4 of the palette otherwise), a space
ItemHead(list, d) ==
    repeat(" ", 2 * d)
        \o Styled("95", IF list.ordered THEN Digits(list.index + 1) \o <<".">>
                        ELSE <<LIST_BULLETS[(d % 4) + 1]>>)
        \o <<" ">>

RECURSIVE Levels(_, _)
\* the list with the depth d it is rendered at, and every list nested in it
\* with the depth of its own: one more per level
Levels(list, d) ==
    {[list |-> list, depth |-> d]}
        \cup UNION {Levels(list.values[k], d + 1) :
                        k \in {j \in 1..Len(list.values) : list.values[j].kind = "List"}}

(***************************************************************************)
(* C26: a list rendered at depth d begins with 2d spaces of indentation    *)
(* and its bullet - the start index plus one and a dot when ordered, entry *)
(* d mod 4 of the four-glyph palette when not - and a List child is        *)
(* rendered at depth d + 1: the output holds, for the list and for every   *)
(* list nested k levels inside it, that list's rendering at depth d + k,   *)
(* which begins with 2(d + k) spaces and the bullet of depth d + k.        *)
(***************************************************************************)
C26_IndentAndBulletByDepth ==
    (pc = "ret" /\ arg.node.kind = "List") =>
        /\ starts_with(w.out, ItemHead(arg.node, arg.depth))
        /\ \A p \in Levels(arg.node, arg.depth) :
              \E r \in {render_node_inline(p.list, p.depth, TRUE, NewWriter(0)).out} :
                  /\ starts_with(r, ItemHead(p.list, p.depth))
                  /\ Occurs(r, w.out)

\* a list at depth 3 with two lists nested in it: the innermost is at depth 5,
\* indented by ten spaces, its bullet the second glyph of the palette, on a
\* line of its own
C26_Witness ==
    /\ pc = "ret"
    /\ arg.node = NestedList(2, FALSE, <<ItemA>>)
    /\ arg.depth = 3
    /\ Occurs(<<NL>> \o repeat(" ", 10) \o <<Sgr("95"), "U+25CB", RESET, " ", "a", NL>>, w.out)


\* what stands in out between the head of the item and the rendering r of
\* its nested list, the item's line break behind r left aside
BeforeNested(out, list, d, r) ==
    SubSeq(out, Len(ItemHead(list, d)) + 1, Len(out) - Len(r) - 1)

(***************************************************************************)
(* C27: in render_list a newline is written before a nested List child if  *)
(* and only if the children of the item before it wrote visible content:   *)
(* between the item's bullet and the nested list stands either nothing (an *)
(* item of only a nested list, or of empty or whitespace-only text before  *)
(* it) or visible content and then one newline.                            *)
(***************************************************************************)
C27_NewlineIffVisibleContent ==
    (/\ pc = "ret"
     /\ arg.node.kind = "List"
     /\ arg.node.values # <<>>
     /\ arg.node.values[Len(arg.node.values)].kind = "List") =>
        \E r \in {render_node_inline(arg.node.values[Len(arg.node.values)],
                                     arg.depth + 1, TRUE, NewWriter(0)).out} :
        \E mid \in {BeforeNested(w.out, arg.node, arg.depth, r)} :
            \/ mid = <<>>
            \/ /\ ends_with(mid, NL)
               /\ ~Blank(Visible(SubSeq(mid, 1, Len(mid) - 1)))
               /\ ~contains(SubSeq(mid, 1, Len(mid) - 1), NL)


\* what the children of a cell show, each rendered inline
CellShown(cell) == Visible(RenderEach(cell.values, 1, 0, TRUE, NewWriter(0)).out)

(***************************************************************************)
(* C28, as stated: a TableHeader, TableRow or TableCell node that reaches  *)
(* the dispatcher on its own is rendered as a table of one cell - the row  *)
(* opener "│ ", the content, the closing separator "│" - and is not        *)
(* skipped silently.                                                       *)
(***************************************************************************)
C28_LoneTableNodeIsOneCellTable ==
    (pc = "ret" /\ IsTableNode(arg.node)) =>
        /\ starts_with(Visible(w.out), <<BOX_V, " ">>)
        /\ Len(w.out) >= 2
        /\ SubSeq(Visible(w.out), Len(Visible(w.out)) - 1, Len(Visible(w.out)))
                = <<BOX_V, NL>>

(***************************************************************************)
(* C28, amended: a TableCell node that reaches the dispatcher on its own   *)
(* is rendered as a table of one cell - the row opener "│ ", its content   *)
(* padded to its own width (no padding), a space, and the closing          *)
(* separator "│" with a newline when the cell is the last of its row; a    *)
(* TableHeader or TableRow node that reaches the dispatcher is skipped     *)
(* silently: nothing is written.                                           *)
(***************************************************************************)
C28_LoneCellIsOneCellTableOthersSkipped ==
    (pc = "ret" /\ IsTableNode(arg.node)) =>
        /\ ret = "Ok"
        /\ arg.node.kind = "TableCell" =>
              Visible(w.out) = <<BOX_V, " ">> \o CellShown(arg.node) \o <<" ">>
                  \o (IF arg.node.last_cell_in_row THEN <<BOX_V, NL>> ELSE <<>>)
        /\ arg.node.kind \in {"TableHeader", "TableRow"} =>
              (w.out = <<>> /\ w.n = 0)

\* a cell of column 2 that does not end its row: opener, text, a space
C28_Witness ==
    /\ pc = "ret"
    /\ arg.node = TableCell(<<TextAb>>, 2, 0, FALSE)
    /\ Visible(w.out) = <<BOX_V, " ", "a", "b", " ">>


\* depth clamped to lo..hi
Clamp(depth, lo, hi) == IF depth < lo THEN lo ELSE IF depth > hi THEN hi ELSE depth

(***************************************************************************)
(* C29: for every depth the depth field can hold, 0 and the values above 6 *)
(* included, rendering the Heading does not underflow, overflow or panic   *)
(* in computing the glyph index, and the title line begins with the        *)
(* numeral glyph of the depth clamped to 1..6, entry clamp(depth, 1, 6) - 1 *)
(* of the six-glyph table.                                                 *)
(***************************************************************************)
C29_GlyphOfClampedDepth ==
    (pc = "ret" /\ arg.node.kind = "Heading") =>
        /\ ret = "Ok"
        /\ HeaderIndex(arg.node.depth, w.checks) >= 0
        /\ HeaderIndex(arg.node.depth, w.checks) = arg.node.depth - 1
        /\ \E k \in 1..Len(VisibleLineSeq(w.out)) :
              starts_with(VisibleLineSeq(w.out)[k],
                          <<HEADER_SYMBOLS[Clamp(arg.node.depth, 1, 6)], " ">>)


\* a sink and a highlighter instance that nothing has gone through, on the
\* terminal of w0
Fresh(w0) == [NewWriter(0) EXCEPT !.viuer = w0.viuer, !.checks = w0.checks]

RECURSIVE EachAlone(_, _, _)
\* the first k nodes of ns, each rendered by itself at depth 0 in block mode
\* through an instance of its own, one output behind the other
EachAlone(ns, k, w0) ==
    IF k = 0 THEN <<>>
    ELSE EachAlone(ns, k - 1, w0) \o render_node(ns[k], 0, Fresh(w0)).out

====
